---- MODULE Spec2Model ----
(***************************************************************************)
(* gofpdi: the importer facade (Importer), the serializer (PdfWriter) and  *)
(* the page level queries of the parser (PdfReader), as a state machine.   *)
(* One action per facade operation; each action is the whole call,         *)
(* including everything it calls on the Writer and the Reader.             *)
(*                                                                         *)
(* Conventions                                                             *)
(*  - a PdfValue is a record with a Type field and the fields that Type    *)
(*    uses; a Go map is a function (its DOMAIN are the keys present);      *)
(*  - a Go pointer to a PdfObjectId is the field ptr of the record         *)
(*    (allocation order), so map[*PdfObjectId] is a function over records  *)
(*    that differ whenever the pointers differ;                            *)
(*  - float64 box values are integers in the sources modelled here, and    *)
(*    the placement math of UseTemplate is done on exact fractions with    *)
(*    the IEEE special values NaN and +-Inf;                               *)
(*  - a Go range over a map visits the entries in any order: the writer    *)
(*    operators are set valued (every order is an outcome);                *)
(*  - the field log of a writer is a history of its allocations and        *)
(*    emissions, it is not read by any operation.                          *)
(***************************************************************************)
EXTENDS FiniteSets, Integers, Sequences, TLC

VARIABLES sourceFile, readers, writers, tplMap, tplN, importedPages, ret, calls

vars == <<sourceFile, readers, writers, tplMap, tplN, importedPages, ret, calls>>

(***************************************************************************)
(* Bounds of the model.                                                    *)
(***************************************************************************)
\* The number of calls that change an Importer (a first import of a page,
\* PutFormXobjects, PutFormXobjectsUnordered, SetNextObjectID) in a behaviour
\* of Spec, SpecWriter, SpecBoxes and SpecUse.
MaxCalls == 3
WriterMaxCalls == 5
BoxesMaxCalls == 2
UseMaxCalls == 2

\* ... and in a behaviour of SpecTree.
TreeMaxCalls == 2

\* The number of sources opened in a behaviour of SpecReader.
ReaderMaxCalls == 1

(***************************************************************************)
(* Small helpers.                                                          *)
(***************************************************************************)
Range(s) == {s[i] : i \in DOMAIN s}

MapSet(m, k, v) == [x \in (DOMAIN m) \cup {k} |-> IF x = k THEN v ELSE m[x]]

EmptyMap == [x \in {} |-> 0]

Abs(a) == IF a < 0 THEN -a ELSE a

Min2(a, b) == IF a < b THEN a ELSE b

Max2(a, b) == IF a < b THEN b ELSE a

\* Go's integer remainder and quotient truncate towards zero.
GoRem(a, b) == IF a >= 0 THEN a % b ELSE -((-a) % b)

GoQuo(a, b) == IF a >= 0 THEN a \div b ELSE -((-a) \div b)

\* map[string]float64 lookup: a missing key reads as 0.
BoxGet(m, key) == IF key \in DOMAIN m THEN m[key] ELSE 0

(***************************************************************************)
(* PdfValue constructors (reader.go, type PdfValue).                       *)
(***************************************************************************)
NilValue == [Type |-> "NIL"]

Ref(id) == [Type |-> "OBJREF", Id |-> id, Gen |-> 0]

\* An integer token: readValue sets Int and Real = float64(Int).
Num(n) == [Type |-> "NUMERIC", Int |-> n, Real |-> n]

Tok(t) == [Type |-> "TOKEN", Token |-> t]

Arr(s) == [Type |-> "ARRAY", Array |-> s]

Dict(f) == [Type |-> "DICTIONARY", Dictionary |-> f]

Obj(id, v) == [Type |-> "OBJECT", Id |-> id, Gen |-> 0, Value |-> v]

StreamObj(id, d, bytes) ==
  [Type |-> "STREAM", Id |-> id, Gen |-> 0, Value |-> d,
   Stream |-> [Type |-> "STREAM", Bytes |-> bytes]]

BoxArr(a, b, c, d) == Arr(<<Num(a), Num(b), Num(c), Num(d)>>)

(***************************************************************************)
(* The source documents.  SourceObjects(f) is what the cross-reference     *)
(* table of file f resolves to: object id -> parsed indirect object.       *)
(*                                                                         *)
(* a.pdf  2 /Pages  /MediaBox [0 0 300 400]                                *)
(*        3 /Page 1 /MediaBox [0 0 200 100], /Resources with references to *)
(*                  objects 5 and 9999                                     *)
(*        4 /Page 2 inherits the /MediaBox of 2, /Rotate 90, /Resources    *)
(*                  8 0 R = an array of references [7 0 R 5 0 R]           *)
(*        5 <-> 7   two dictionaries that reference each other             *)
(* b.pdf  (read from a stream)                                             *)
(*        2 /Pages  no box                                                 *)
(*        3 /Page 1 no box at all                                          *)
(*        4 /Page 2 /MediaBox, /CropBox, /Rotate -90, /Resources with an   *)
(*                  array of references [7 0 R 5 0 R]                      *)
(* c.pdf  a page tree of two levels, every leaf with its own /Rotate       *)
(*        2  /Pages /MediaBox [0 0 120 60], /Resources <</R 5 0 R>>,       *)
(*                  kids 10, 17 .. 20                                      *)
(*        10 /Pages child of 2, no /Resources, kids 11 .. 16               *)
(*        11 /Page 1 under 10, no /Resources, /Rotate 180                  *)
(*        12 /Page 2 under 10, its own /Resources, /Rotate 270             *)
(*        13 .. 16  pages 3 .. 6 under 10, /Rotate 450, 90, 360, 0         *)
(*        17 /Page 7 under 2, no /Resources, /Rotate -180                  *)
(*        18 .. 20  pages 8 .. 10 under 2, /Rotate -270, -450, -90         *)
(***************************************************************************)
FileA == "a.pdf"

FileC == "c.pdf"

FileMissing == "missing.pdf"

\* The io.ReadSeeker handed to SetSourceStream holds the bytes of b.pdf; its
\* source name is fmt.Sprintf("%v", rs), a text made of the stream value.
StreamB == "&{b.pdf}"

Sources == {FileA, StreamB, FileC}

SourceObjectsA ==
  (2 :> Obj(2, Dict(("/Type" :> Tok("/Pages")) @@ ("/Kids" :> Arr(<<Ref(3), Ref(4)>>))
                    @@ ("/Count" :> Num(2)) @@ ("/MediaBox" :> BoxArr(0, 0, 300, 400)))))
  @@ (3 :> Obj(3, Dict(("/Type" :> Tok("/Page")) @@ ("/Parent" :> Ref(2))
                    @@ ("/MediaBox" :> BoxArr(0, 0, 200, 100))
                    @@ ("/Resources" :> Dict(("/F1" :> Ref(5)) @@ ("/F2" :> Ref(9999))))
                    @@ ("/Contents" :> Ref(6)))))
  @@ (4 :> Obj(4, Dict(("/Type" :> Tok("/Page")) @@ ("/Parent" :> Ref(2))
                    @@ ("/Rotate" :> Num(90))
                    @@ ("/Resources" :> Ref(8)) @@ ("/Contents" :> Ref(6)))))
  @@ (5 :> Obj(5, Dict("/Desc" :> Ref(7))))
  @@ (6 :> StreamObj(6, Dict("/Length" :> Num(3)), "q Q"))
  @@ (7 :> Obj(7, Dict("/Font" :> Ref(5))))
  @@ (8 :> Obj(8, Dict("/F" :> Arr(<<Ref(7), Ref(5)>>))))
  @@ (9999 :> Obj(9999, Dict("/K" :> Num(1))))

SourceObjectsB ==
  (2 :> Obj(2, Dict(("/Type" :> Tok("/Pages")) @@ ("/Kids" :> Arr(<<Ref(3), Ref(4)>>))
                    @@ ("/Count" :> Num(2)))))
  @@ (3 :> Obj(3, Dict(("/Type" :> Tok("/Page")) @@ ("/Parent" :> Ref(2))
                    @@ ("/Resources" :> Dict("/G" :> Ref(5)))
                    @@ ("/Contents" :> Ref(6)))))
  @@ (4 :> Obj(4, Dict(("/Type" :> Tok("/Page")) @@ ("/Parent" :> Ref(2))
                    @@ ("/MediaBox" :> BoxArr(0, 0, 50, 80))
                    @@ ("/CropBox" :> BoxArr(5, 5, 45, 75))
                    @@ ("/Rotate" :> Num(-90))
                    @@ ("/Resources" :> Dict("/Arr" :> Arr(<<Ref(7), Ref(5)>>)))
                    @@ ("/Contents" :> Ref(6)))))
  @@ (5 :> Obj(5, Dict("/T" :> Tok("/Font"))))
  @@ (6 :> StreamObj(6, Dict("/Length" :> Num(1)), "n"))
  @@ (7 :> Obj(7, Num(1)))

\* A /Page leaf of c.pdf: its parent, its /Rotate and its own /Resources
\* when it has one.
PageC(id, parent, rotate, ownResources) ==
  Obj(id, Dict(("/Type" :> Tok("/Page")) @@ ("/Parent" :> Ref(parent))
               @@ ("/Rotate" :> Num(rotate)) @@ ("/Contents" :> Ref(6))
               @@ (IF ownResources THEN "/Resources" :> Dict("/S" :> Ref(5)) ELSE EmptyMap)))

SourceObjectsC ==
  (2 :> Obj(2, Dict(("/Type" :> Tok("/Pages"))
                    @@ ("/Kids" :> Arr(<<Ref(10), Ref(17), Ref(18), Ref(19), Ref(20)>>))
                    @@ ("/Count" :> Num(10)) @@ ("/MediaBox" :> BoxArr(0, 0, 120, 60))
                    @@ ("/Resources" :> Dict("/R" :> Ref(5))))))
  @@ (10 :> Obj(10, Dict(("/Type" :> Tok("/Pages")) @@ ("/Parent" :> Ref(2))
                    @@ ("/Kids" :> Arr(<<Ref(11), Ref(12), Ref(13), Ref(14), Ref(15), Ref(16)>>))
                    @@ ("/Count" :> Num(6)))))
  @@ (11 :> PageC(11, 10, 180, FALSE))
  @@ (12 :> PageC(12, 10, 270, TRUE))
  @@ (13 :> PageC(13, 10, 450, TRUE))
  @@ (14 :> PageC(14, 10, 90, TRUE))
  @@ (15 :> PageC(15, 10, 360, TRUE))
  @@ (16 :> PageC(16, 10, 0, TRUE))
  @@ (17 :> PageC(17, 2, -180, FALSE))
  @@ (18 :> PageC(18, 2, -270, TRUE))
  @@ (19 :> PageC(19, 2, -450, TRUE))
  @@ (20 :> PageC(20, 2, -90, TRUE))
  @@ (5 :> Obj(5, Dict("/T" :> Tok("/Font"))))
  @@ (6 :> StreamObj(6, Dict("/Length" :> Num(1)), "n"))

SourceObjects(f) ==
  IF f = FileA THEN SourceObjectsA
  ELSE IF f = FileC THEN SourceObjectsC
  ELSE SourceObjectsB

\* The object ids of the /Page leaves of f in the depth first order of its
\* page tree (what readPages leaves in pr.pages).
SourcePageIds(f) ==
  IF f = FileC THEN <<11, 12, 13, 14, 15, 16, 17, 18, 19, 20>> ELSE <<3, 4>>

(***************************************************************************)
(* The tokenizer of the Reader (reader.go).  A text is read through a     *)
(* position p, the number of its bytes consumed so far; the only read     *)
(* error is the end of the text (io.EOF).                                  *)
(***************************************************************************)
ByteAt(s, p) == SubSeq(s, p + 1, p + 1)

\* skipWhitespace: the position of the first byte that is not white space;
\* the end of the text ends the loop without error.
RECURSIVE skipWhitespace(_, _)
skipWhitespace(s, p) ==
  LET
      Whitespace == {" ", "\n", "\r", "\t"}
  IN
  IF p >= Len(s) THEN p
  ELSE IF ByteAt(s, p) \in Whitespace THEN skipWhitespace(s, p + 1)
  ELSE p

\* skipComments: reads up to and including the end of the line; the end of
\* the text before it is an error.
RECURSIVE skipComments(_, _)
skipComments(s, p) ==
  IF p >= Len(s) THEN [err |-> "Failed to ReadByte while skipping comments", p |-> p]
  ELSE IF ByteAt(s, p) = "\n" THEN [err |-> "", p |-> p + 1]
  ELSE IF ByteAt(s, p) = "\r"
  THEN IF p + 1 >= Len(s) THEN [err |-> "Failed to read byte", p |-> p + 1]
       ELSE [err |-> "", p |-> IF ByteAt(s, p + 1) = "\n" THEN p + 2 ELSE p + 1]
  ELSE skipComments(s, p + 1)

\* The `loop:` of readToken: the bytes of a word are collected up to the
\* next delimiter, which is put back; the end of the text is an error.
RECURSIVE readWord(_, _, _)
readWord(s, p, str) ==
  LET
      Delimiters == {" ", "%", "[", "]", "<", ">", "(", ")", "\r", "\n", "\t", "/"}
  IN
  IF p >= Len(s) THEN [token |-> "", err |-> "Failed to read byte", p |-> p]
  ELSE IF ByteAt(s, p) \in Delimiters THEN [token |-> str, err |-> "", p |-> p]
  ELSE readWord(s, p + 1, str \o ByteAt(s, p))

\* The result of a readToken.
tokenRead(t, e, n, stack) == [token |-> t, err |-> e, p |-> n, stack |-> stack]

\* readToken with pr.stack = stack on the text s at position p.
RECURSIVE readToken(_, _, _)
RECURSIVE readTokenAt(_, _, _)
RECURSIVE readTokenAfterComment(_, _, _)

\* A comment was skipped: the token is the one after it.
readTokenAfterComment(stack, s, c) ==
  IF c.err # "" THEN tokenRead("", "Failed to skip comments", c.p, stack)
  ELSE readToken(stack, s, c.p)

\* readToken after skipWhitespace, at the byte q.
readTokenAt(stack, s, q) ==
  LET
      \* A word was read.
      wordRead(w) == tokenRead(w.token, w.err, w.p, stack)
  IN
  IF q >= Len(s) THEN tokenRead("", "", q, stack)
  ELSE IF ByteAt(s, q) \in {"[", "]", "(", ")"} THEN tokenRead(ByteAt(s, q), "", q + 1, stack)
  ELSE IF ByteAt(s, q) \in {"<", ">"}
  THEN IF q + 1 >= Len(s) THEN tokenRead("", "Failed to read byte", q + 1, stack)
       ELSE IF ByteAt(s, q + 1) = ByteAt(s, q)
       THEN tokenRead(ByteAt(s, q) \o ByteAt(s, q), "", q + 2, stack)
       ELSE tokenRead(ByteAt(s, q), "", q + 1, stack)
  ELSE IF ByteAt(s, q) = "%" THEN readTokenAfterComment(stack, s, skipComments(s, q + 1))
  ELSE wordRead(readWord(s, q + 1, ByteAt(s, q)))

readToken(stack, s, p) ==
  IF Len(stack) > 0
  THEN tokenRead(stack[Len(stack)], "", p, SubSeq(stack, 1, Len(stack) - 1))
  ELSE readTokenAt(stack, s, skipWhitespace(s, p))

\* strconv.Atoi: an optional sign and decimal digits, anything else is an
\* error.
Digits == <<"0", "1", "2", "3", "4", "5", "6", "7", "8", "9">>

RECURSIVE AtoiDigits(_, _, _)
AtoiDigits(t, i, acc) ==
  LET
      DigitValue(c) == (CHOOSE d \in DOMAIN Digits : Digits[d] = c) - 1
  IN
  IF i > Len(t) THEN [err |-> "", n |-> acc]
  ELSE IF SubSeq(t, i, i) \notin Range(Digits) THEN [err |-> "invalid syntax", n |-> 0]
  ELSE AtoiDigits(t, i + 1, acc * 10 + DigitValue(SubSeq(t, i, i)))

Atoi(t) ==
  LET
      AtoiSigned(signed) ==
        IF Len(t) = (IF signed THEN 1 ELSE 0) THEN [err |-> "invalid syntax", n |-> 0]
        ELSE IF AtoiDigits(t, IF signed THEN 2 ELSE 1, 0).err # "" THEN [err |-> "invalid syntax", n |-> 0]
        ELSE [err |-> "",
              n |-> IF signed /\ SubSeq(t, 1, 1) = "-"
                    THEN 0 - AtoiDigits(t, 2, 0).n
                    ELSE AtoiDigits(t, IF signed THEN 2 ELSE 1, 0).n]
  IN
  AtoiSigned(Len(t) > 0 /\ SubSeq(t, 1, 1) \in {"+", "-"})


(***************************************************************************)
(* The bytes of a source, as far as the Reader looks at them:              *)
(*   exists    os.Open succeeds (a stream always exists)                   *)
(*   nBytes    the length of the source                                    *)
(*   tail      its last min(1500, nBytes) bytes, where findXref looks for  *)
(*             startxref                                                  *)
(*   sections  byte offset -> the cross-reference section that starts      *)
(*             there: a classic table (its entries in file order and its   *)
(*             trailer dictionary) or a cross-reference stream (its        *)
(*             entries and its dictionary)                                 *)
(*   objects   byte offset -> the indirect object "id gen obj ... endobj"  *)
(*             that starts there, parsed                                   *)
(***************************************************************************)
\* The entry of object id in a classic section: position, generation, n/f.
Entry(id, pos) == [id |-> id, gen |-> 0, pos |-> pos, status |-> "n"]

TableSection(entries, trailer) == [kind |-> "table", entries |-> entries, trailer |-> trailer]

RECURSIVE SetToSeq(_)
SetToSeq(S) ==
  IF S = {} THEN <<>>
  ELSE LET m == CHOOSE x \in S : \A y \in S : x <= y IN <<m>> \o SetToSeq(S \ {m})

\* Where the well-formed sources keep object id, and their one section.
OffsetOf(id) == 1000 * id

Catalog == Obj(1, Dict(("/Type" :> Tok("/Catalog")) @@ ("/Pages" :> Ref(2))))

\* A well-formed source with one classic section: the catalog is object 1,
\* the root of the page tree is object 2.
WellFormed(objs) ==
  LET all == (1 :> Catalog) @@ objs
      ids == SetToSeq(DOMAIN all)
  IN [exists |-> TRUE,
      nBytes |-> 10 * OffsetOf(ids[Len(ids)]),
      tail |-> "startxref\n500\n%%EOF\n",
      sections |-> (500 :> TableSection([i \in DOMAIN ids |-> Entry(ids[i], OffsetOf(ids[i]))],
                                      Dict(("/Size" :> Num(Len(ids) + 1)) @@ ("/Root" :> Ref(1))))),
      objects |-> [o \in {OffsetOf(id) : id \in DOMAIN all} |->
                     all[CHOOSE id \in DOMAIN all : OffsetOf(id) = o]]]

\* A two page tree whose root says /Count count and has the kids `kids`.
TwoPages(count, kids) ==
  (2 :> Obj(2, Dict(("/Type" :> Tok("/Pages")) @@ ("/Kids" :> Arr(kids))
                    @@ ("/Count" :> Num(count)) @@ ("/MediaBox" :> BoxArr(0, 0, 10, 20)))))
  @@ (3 :> Obj(3, Dict(("/Type" :> Tok("/Page")) @@ ("/Parent" :> Ref(2)))))
  @@ (4 :> Obj(4, Dict(("/Type" :> Tok("/Page")) @@ ("/Parent" :> Ref(2)))))
  @@ (5 :> Obj(5, Dict("/Type" :> Tok("/Font"))))

\* count-high.pdf: /Count 3, two /Page leaves.
FileCountHigh == "count-high.pdf"

\* count-low.pdf: /Count 1, two /Page leaves.
FileCountLow == "count-low.pdf"

\* bad-kid.pdf: /Count 2, and between the two /Page leaves a kid of /Type
\* /Font.
FileBadKid == "bad-kid.pdf"

\* prev.pdf: a document updated once.  The older section, at 500, lists
\* the objects 1 .. 5 of a two page document and has the trailer
\* /Root 1 0 R; the newest section, at 7500, the one startxref points at,
\* lists the new revision of page 3 at 6000 and a new catalog 7 at 7000,
\* and has the trailer /Root 7 0 R /Prev 500.
FilePrev == "prev.pdf"

\* prev-cycle.pdf: the /Prev of its one section is the section's own offset.
FilePrevCycle == "prev-cycle.pdf"

\* no-startxref.pdf: the last 1500 bytes hold no startxref token (the
\* source goes on after its %%EOF line).
FileNoStartxref == "no-startxref.pdf"

\* cut.pdf: the source ends in the middle of the word startxref's operand.
FileCut == "cut.pdf"

\* stale.pdf: a two page document whose table also has an entry for object
\* 6 that points at object 5, one for object 8 that points at no object,
\* and one for object 9, an object that lacks its endobj.
FileStale == "stale.pdf"

\* objstm.pdf: a two page document with a cross-reference stream.  Object
\* 5 is the first object of the object stream 20; object 6 is said to be in
\* the object stream 21, for which the table has a stale offset.
FileObjStm == "objstm.pdf"

\* The bytes of the source f, as the Reader finds them: the sections of its
\* cross-reference table, its objects by offset, and its last bytes.
PdfFile(f) ==
  LET
      \* An entry of a cross-reference stream of type 2: object id is the idx-th
      \* object of the object stream objId.
      CompressedEntry(id, objId, idx) == [id |-> id, type |-> 2, objId |-> objId, idx |-> idx]
  IN
  LET
      PdfFileA == WellFormed(SourceObjectsA)
      PdfFileCountHigh == WellFormed(TwoPages(3, <<Ref(3), Ref(4)>>))
      PdfFileCountLow == WellFormed(TwoPages(1, <<Ref(3), Ref(4)>>))
      PdfFileBadKid == WellFormed(TwoPages(2, <<Ref(3), Ref(5), Ref(4)>>))
      NewPage3 ==
        Obj(3, Dict(("/Type" :> Tok("/Page")) @@ ("/Parent" :> Ref(2)) @@ ("/Rotate" :> Num(90))))
      NewCatalog ==
        Obj(7, Dict(("/Type" :> Tok("/Catalog")) @@ ("/Pages" :> Ref(2)) @@ ("/Version" :> Tok("/1.7"))))
      NewestTrailer == Dict(("/Size" :> Num(8)) @@ ("/Root" :> Ref(7)) @@ ("/Prev" :> Num(500)))
      PdfFilePrev ==
        LET old == WellFormed(TwoPages(2, <<Ref(3), Ref(4)>>)) IN
        [old EXCEPT !.tail = "startxref\n7500\n%%EOF\n",
                    !.sections = @ @@ (7500 :> TableSection(<<Entry(3, 6000), Entry(7, 7000)>>,
                                                           NewestTrailer)),
                    !.objects = @ @@ (6000 :> NewPage3) @@ (7000 :> NewCatalog)]
      PdfFilePrevCycle ==
        LET base == WellFormed(TwoPages(2, <<Ref(3), Ref(4)>>)) IN
        [base EXCEPT !.sections[500].trailer = Dict(("/Root" :> Ref(1)) @@ ("/Prev" :> Num(500)))]
      PdfFileNoStartxref ==
        [WellFormed(TwoPages(2, <<Ref(3), Ref(4)>>)) EXCEPT !.tail = "%%EOF\n<< /Added [ 1 2 ] >>\n"]
      PdfFileCut ==
        [WellFormed(TwoPages(2, <<Ref(3), Ref(4)>>)) EXCEPT !.tail = "startxref\n500"]
      PdfFileStale ==
        LET base == WellFormed(TwoPages(2, <<Ref(3), Ref(4)>>)) IN
        [base EXCEPT !.sections[500].entries = @ \o <<Entry(6, OffsetOf(5)), Entry(8, 8500), Entry(9, 9000)>>,
                     !.objects = @ @@ (9000 :> (Obj(9, Num(1)) @@ [Unclosed |-> TRUE]))]
      ObjStm20 ==
        [StreamObj(20, Dict(("/Type" :> Tok("/ObjStm")) @@ ("/N" :> Num(1)) @@ ("/First" :> Num(4))
                            @@ ("/Length" :> Num(20))), "5 0 <</T /Font>>")
           EXCEPT !.Stream = [Type |-> "STREAM", Bytes |-> "5 0 <</T /Font>>",
                              Objects |-> <<[id |-> 5, val |-> Dict("/T" :> Tok("/Font"))]>>]]
      PdfFileObjStm ==
        LET base == WellFormed(TwoPages(2, <<Ref(3), Ref(4)>>)) IN
        [base EXCEPT
           !.sections = (500 :> [kind |-> "stream",
                               entries |-> <<Entry(1, 1000), Entry(2, 2000), Entry(3, 3000), Entry(4, 4000),
                                             Entry(20, 20000), Entry(21, 21500),
                                             CompressedEntry(5, 20, 0), CompressedEntry(6, 21, 0)>>,
                               dict |-> Dict(("/Type" :> Tok("/XRef")) @@ ("/Root" :> Ref(1))
                                             @@ ("/W" :> Arr(<<Num(1), Num(2), Num(1)>>)))]),
           !.objects = [o \in {1000, 2000, 3000, 4000} |-> base.objects[o]] @@ (20000 :> ObjStm20)]
      PdfFileB == WellFormed(SourceObjectsB)
      PdfFileC == WellFormed(SourceObjectsC)
      NoFile == [exists |-> FALSE, nBytes |-> 0, tail |-> "", sections |-> EmptyMap, objects |-> EmptyMap]
  IN
  IF f = FileA THEN PdfFileA
  ELSE IF f = StreamB THEN PdfFileB
  ELSE IF f = FileC THEN PdfFileC
  ELSE IF f = FileCountHigh THEN PdfFileCountHigh
  ELSE IF f = FileCountLow THEN PdfFileCountLow
  ELSE IF f = FileBadKid THEN PdfFileBadKid
  ELSE IF f = FilePrev THEN PdfFilePrev
  ELSE IF f = FilePrevCycle THEN PdfFilePrevCycle
  ELSE IF f = FileNoStartxref THEN PdfFileNoStartxref
  ELSE IF f = FileCut THEN PdfFileCut
  ELSE IF f = FileStale THEN PdfFileStale
  ELSE IF f = FileObjStm THEN PdfFileObjStm
  ELSE NoFile

(***************************************************************************)
(* PdfReader (reader.go).                                                  *)
(***************************************************************************)
availableBoxes == <<"/MediaBox", "/CropBox", "/BleedBox", "/TrimBox", "/ArtBox">>

\* The size of the buffer of bufio.NewReader(pr.f).
BufSize == 4096

\* The seek position of pr.f after a read through a bufio.Reader that
\* started at offset: the buffer is filled with what is there, up to its
\* size (the texts parsed here are shorter than one buffer).
AfterRead(file, offset) ==
  IF offset >= file.nBytes THEN offset ELSE Min2(offset + BufSize, file.nBytes)

\* offset := pr.xref[objSpec.Id][objSpec.Gen] (0 for a generation the table
\* does not have).
xrefOffset(pr, objSpec) ==
  IF pr.xref[objSpec.Id].gen = objSpec.Gen THEN pr.xref[objSpec.Id].pos ELSE 0

\* An exit of resolveObject with an error, the source left at pos.
resolveError(msg, pos) == [err |-> msg, val |-> NilValue, pos |-> pos]

\* resolveObject: an indirect reference is looked up in the cross-reference
\* table and the object is parsed at its offset; pos is the seek position
\* of the source when the call returns.  Any other value is returned
\* unchanged.
RECURSIVE resolveObject(_, _)
RECURSIVE resolveCompressedObject(_, _)
RECURSIVE resolveObjectAt(_, _, _, _)

\* resolveObject from the Seek to offset on: the header "id gen obj", the
\* value, a stream with its /Length, and endobj are parsed; old_pos is
\* restored at the end.  moved is the position the reads leave behind.
resolveObjectAt(pr, objSpec, offset, moved) ==
  IF offset \notin DOMAIN pr.f.objects
  THEN resolveError("Expected type to be PDF_TYPE_OBJDEC", moved)
  ELSE IF pr.f.objects[offset].Id # objSpec.Id
  THEN resolveError("Object ID does not match ObjSpec ID", moved)
  ELSE IF pr.f.objects[offset].Gen # objSpec.Gen
  THEN resolveError("Object Gen does not match ObjSpec Gen", moved)
  ELSE IF /\ pr.f.objects[offset].Type = "STREAM"
          /\ pr.f.objects[offset].Value.Dictionary["/Length"].Type = "OBJREF"
          /\ resolveObject([pr EXCEPT !.pos = moved],
                           pr.f.objects[offset].Value.Dictionary["/Length"]).err # ""
  THEN resolveError("Failed to resolve length object of stream",
                    resolveObject([pr EXCEPT !.pos = moved],
                                  pr.f.objects[offset].Value.Dictionary["/Length"]).pos)
  ELSE IF "Unclosed" \in DOMAIN pr.f.objects[offset]
  THEN resolveError("Expected next token to be: endobj", moved)
  ELSE [err |-> "", val |-> pr.f.objects[offset], pos |-> pr.pos]

resolveObject(pr, objSpec) ==
  IF objSpec.Type # "OBJREF" THEN [err |-> "", val |-> objSpec, pos |-> pr.pos]
  ELSE IF objSpec.Id \notin DOMAIN pr.xref THEN resolveCompressedObject(pr, objSpec)
  ELSE IF xrefOffset(pr, objSpec) < 0 THEN resolveError("Failed to set position of file", pr.pos)
  ELSE resolveObjectAt(pr, objSpec, xrefOffset(pr, objSpec),
                       AfterRead(pr.f, xrefOffset(pr, objSpec)))

\* resolveCompressedObject: object id is the idx-th object of an object
\* stream, which is resolved and searched.
resolveCompressedObject(pr, objSpec) ==
  LET
      \* The objectIndex-th object of the resolved object stream c.
      subObject(c, objectIndex) ==
        IF c.err # "" THEN resolveError("Failed to resolve compressed object", c.pos)
        ELSE IF "/Type" \notin DOMAIN c.val.Value.Dictionary
        THEN resolveError("Could not determine compressed object type.", c.pos)
        ELSE IF c.val.Value.Dictionary["/Type"].Token # "/ObjStm"
        THEN resolveError("Expected compressed object type to be /ObjStm", c.pos)
        ELSE IF c.val.Value.Dictionary["/N"].Int <= 0
        THEN resolveError("No sub objects in compressed object", c.pos)
        ELSE IF /\ "/Filter" \in DOMAIN c.val.Value.Dictionary
                /\ c.val.Value.Dictionary["/Filter"].Token # "/FlateDecode"
        THEN resolveError("Unsupported filter - expected /FlateDecode", c.pos)
        ELSE IF c.val.Value.Dictionary["/N"].Int > Len(c.val.Stream.Objects)
        THEN resolveError("Failed to convert token into integer", c.pos)
        ELSE IF objectIndex < c.val.Value.Dictionary["/N"].Int
        THEN [err |-> "", pos |-> c.pos,
              val |-> Obj(c.val.Stream.Objects[objectIndex + 1].id,
                          c.val.Stream.Objects[objectIndex + 1].val)]
        ELSE [err |-> "", pos |-> c.pos, val |-> Obj(0, c.val.Stream.Objects[1].val)]
  IN
  IF objSpec.Id \notin DOMAIN pr.xrefStream
  THEN resolveError("Could not find object ID in xref stream or xref table.", pr.pos)
  ELSE subObject(resolveObject(pr, Ref(pr.xrefStream[objSpec.Id][1])),
                 pr.xrefStream[objSpec.Id][2])

\* init: the Reader before its first read(); pr.f is the source, nBytes its
\* length.
init(f) ==
  [sourceFile |-> f,
   f |-> PdfFile(f),
   availableBoxes |-> availableBoxes,
   nBytes |-> PdfFile(f).nBytes,
   stack |-> <<>>,
   xref |-> EmptyMap,
   xrefStream |-> EmptyMap,
   xrefPos |-> 0,
   trailer |-> NilValue,
   catalog |-> NilValue,
   pages |-> <<>>,
   pageCount |-> 0,
   curPage |-> 0,
   pos |-> 0,
   alreadyRead |-> FALSE]

\* A step of a read(): how it ended, and the Reader it leaves.
Step(status, pr) == [status |-> status, pr |-> pr]

\* findXref: the tokens of the tail are read until startxref is met.  At
\* the end of the text readToken returns the empty token without error,
\* again and again: the loop never ends ("diverges").
RECURSIVE findXrefFrom(_, _)
RECURSIVE findXrefToken(_, _)
findXrefToken(s, t) ==
  LET
      \* The token after startxref is the position of the newest section.
      startxrefOperand(u) ==
        IF u.err # "" \/ Atoi(u.token).err # "" THEN [status |-> "error", xrefPos |-> 0]
        ELSE [status |-> "ok", xrefPos |-> Atoi(u.token).n]
  IN
  IF t.err # "" THEN [status |-> "error", xrefPos |-> 0]
  ELSE IF t.token = "startxref" THEN startxrefOperand(readToken(<<>>, s, t.p))
  ELSE IF t.token = "" THEN [status |-> "diverges", xrefPos |-> 0]
  ELSE findXrefFrom(s, t.p)

findXrefFrom(s, p) == findXrefToken(s, readToken(<<>>, s, p))

findXref(pr) ==
  LET
      findXrefFound(r) ==
        Step(r.status,
             IF r.status = "ok" THEN [pr EXCEPT !.xrefPos = r.xrefPos, !.pos = 0]
             ELSE [pr EXCEPT !.pos = pr.nBytes])
  IN
  findXrefFound(findXrefFrom(pr.f.tail, 0))


RECURSIVE readEntries(_, _, _)
readEntries(pr, entries, i) ==
  LET
      \* The entries of a section are entered in file order; an entry replaces
      \* what the table holds for its object id.
      readEntry(e) ==
        IF "type" \in DOMAIN e /\ e.type = 2
        THEN [pr EXCEPT !.xrefStream = MapSet(@, e.id, <<e.objId, e.idx>>)]
        ELSE [pr EXCEPT !.xref = MapSet(@, e.id, [gen |-> e.gen, pos |-> e.pos])]
  IN
  IF i > Len(entries) THEN pr
  ELSE readEntries(readEntry(entries[i]), entries, i + 1)

\* If /Root is set, the dictionary becomes the trailer.
setTrailer(pr, dict) ==
  IF "/Root" \in DOMAIN dict.Dictionary THEN [pr EXCEPT !.trailer = dict] ELSE pr

\* readXref at pr.xrefPos.  `seen` holds the positions this read() has parsed
\* a section at: the code keeps no such set and parses a position it is
\* sent back to by /Prev again, with the same outcome, without end
\* ("diverges").
RECURSIVE readXref(_, _)
RECURSIVE readSection(_, _, _, _)

\* The section sec with the dictionary dict (its trailer, or the dictionary
\* of the stream): entries, trailer, then the section /Prev names.
readSection(pr, seen, sec, dict) ==
  IF /\ "/Prev" \in DOMAIN dict.Dictionary
     /\ (sec.kind = "table" \/ dict.Dictionary["/Prev"].Int > 0)
  THEN readXref([setTrailer(readEntries(pr, sec.entries, 1), dict)
                   EXCEPT !.xrefPos = dict.Dictionary["/Prev"].Int],
                seen \cup {pr.xrefPos})
  ELSE Step("ok", setTrailer(readEntries(pr, sec.entries, 1), dict))

readXref(pr, seen) ==
  IF pr.xrefPos < 0 THEN Step("error", pr)
  ELSE IF pr.xrefPos \in seen THEN Step("diverges", pr)
  ELSE IF pr.xrefPos \in DOMAIN pr.f.objects
  THEN Step("ok", [pr EXCEPT !.pos = AfterRead(pr.f, pr.xrefPos)])
  ELSE IF pr.xrefPos \notin DOMAIN pr.f.sections
  THEN Step("error", [pr EXCEPT !.pos = AfterRead(pr.f, pr.xrefPos)])
  ELSE readSection([pr EXCEPT !.pos = AfterRead(pr.f, pr.xrefPos)], seen,
                   pr.f.sections[pr.xrefPos],
                   IF pr.f.sections[pr.xrefPos].kind = "table"
                   THEN pr.f.sections[pr.xrefPos].trailer
                   ELSE pr.f.sections[pr.xrefPos].dict)

\* readRoot: the catalog is the object the trailer's /Root names.
readRoot(pr) ==
  LET
      \* The catalog is the object c that was resolved.
      rootResolved(c) ==
        IF c.err # "" THEN Step("error", [pr EXCEPT !.pos = c.pos])
        ELSE Step("ok", [pr EXCEPT !.catalog = c.val])
  IN
  IF pr.trailer = NilValue THEN Step("panic", pr)
  ELSE rootResolved(resolveObject(pr, pr.trailer.Dictionary["/Root"]))

\* readKids: the kids of a page tree node in order, from the i-th on; a
\* /Page is stored at pr.pages[pr.curPage], a /Pages is descended into.
\* For any other /Type the code returns errors.Wrap(err, ...) with
\* err == nil, which is nil: the walk of this node ends there, as a success.
RECURSIVE readKids(_, _, _)
RECURSIVE readKid(_, _, _, _)
RECURSIVE readSubKids(_, _, _, _)
RECURSIVE afterSubKids(_, _, _)

\* The walk goes on with the next kid when the sub-tree was read.
afterSubKids(sub, kids, i) ==
  IF sub.status # "ok" THEN sub ELSE readKids(sub.pr, kids, i + 1)

\* The kid is a /Pages whose /Kids resolved to subKids.
readSubKids(pr, kids, i, subKids) ==
  IF subKids.err # "" THEN Step("error", [pr EXCEPT !.pos = subKids.pos])
  ELSE afterSubKids(readKids(pr, subKids.val, 1), kids, i)

\* The i-th kid resolved to page.
readKid(pr, kids, i, page) ==
  IF page.err # "" THEN Step("error", [pr EXCEPT !.pos = page.pos])
  ELSE IF "/Type" \notin DOMAIN page.val.Value.Dictionary THEN Step("panic", pr)
  ELSE IF page.val.Value.Dictionary["/Type"].Token = "/Page"
  THEN IF pr.curPage >= Len(pr.pages) THEN Step("panic", pr)
       ELSE readKids([pr EXCEPT !.pages[pr.curPage + 1] = page.val, !.curPage = @ + 1],
                     kids, i + 1)
  ELSE IF page.val.Value.Dictionary["/Type"].Token = "/Pages"
  THEN readSubKids(pr, kids, i, resolveObject(pr, page.val.Value.Dictionary["/Kids"]))
  ELSE Step("ok", pr)

readKids(pr, kids, i) ==
  IF i > Len(kids.Array) THEN Step("ok", pr)
  ELSE readKid(pr, kids, i, resolveObject(pr, kids.Array[i]))

\* readPages: the page tree under the catalog's /Pages is flattened.
readPages(pr) ==
  LET
      \* pr.pages gets pageCount.Int entries, all nil, and the walk fills them.
      allocatePages(kids, count) ==
        IF count < 0 THEN Step("panic", [pr EXCEPT !.pageCount = count])
        ELSE readKids([pr EXCEPT !.pageCount = count, !.pages = [i \in 1..count |-> NilValue]],
                      kids, 1)
      \* The /Kids and the /Count of the root of the page tree were resolved.
      pagesResolved(kids, pageCount) ==
        IF kids.err # "" THEN Step("error", [pr EXCEPT !.pos = kids.pos])
        ELSE IF pageCount.err # "" THEN Step("error", [pr EXCEPT !.pos = pageCount.pos])
        ELSE allocatePages(kids.val, IF "Int" \in DOMAIN pageCount.val THEN pageCount.val.Int ELSE 0)
      \* The root of the page tree was resolved.
      pagesDictResolved(pagesDict) ==
        IF pagesDict.err # "" THEN Step("error", [pr EXCEPT !.pos = pagesDict.pos])
        ELSE pagesResolved(resolveObject(pr, pagesDict.val.Value.Dictionary["/Kids"]),
                           resolveObject(pr, pagesDict.val.Value.Dictionary["/Count"]))
  IN
  pagesDictResolved(resolveObject(pr, pr.catalog.Value.Dictionary["/Pages"]))

\* A read() that parses the source again although it has been read.
readAgain(pr) == FALSE

\* Only run once: has read() to do nothing?
onlyOnce(pr) == pr.alreadyRead

\* read: findXref, readXref, readRoot, readPages, once.
read(pr) ==
  LET
      \* The steps of read() after findXref, each taken when the one before it
      \* returned no error.
      readDone(g) == IF g.status # "ok" THEN g ELSE Step("ok", [g.pr EXCEPT !.alreadyRead = TRUE])
      readAfterRoot(c) == IF c.status # "ok" THEN c ELSE readDone(readPages(c.pr))
      readAfterXref(t) == IF t.status # "ok" THEN t ELSE readAfterRoot(readRoot(t.pr))
      readAfterFindXref(x) == IF x.status # "ok" THEN x ELSE readAfterXref(readXref(x.pr, {}))
  IN
  IF onlyOnce(pr) THEN Step("ok", pr) ELSE readAfterFindXref(findXref(pr))

\* NewPdfReader / NewPdfReaderFromStream: open, init (which reads), read.
NewPdfReaderResult(f) ==
  LET
      \* The second read() of NewPdfReader, after the one of init.
      readTwice(first) == IF first.status # "ok" THEN first ELSE read(first.pr)
  IN
  IF ~PdfFile(f).exists THEN Step("error", init(f)) ELSE readTwice(read(init(f)))

\* The Reader of a source that NewPdfReader returns without error.
NewPdfReader(f) == NewPdfReaderResult(f).pr

\* The box entry raw, a reference to which resolved to res.
boxOfEntry(raw, res, k) ==
  LET
      \* The box of the array [a0 a1 a2 a3] for the scale k.
      boxOfArray(a0, a1, a2, a3) ==
        ("x" :> a0 \div k) @@ ("y" :> a1 \div k)
        @@ ("w" :> Abs(a0 - a2) \div k) @@ ("h" :> Abs(a1 - a3) \div k)
        @@ ("llx" :> Min2(a0, a2)) @@ ("lly" :> Min2(a1, a3))
        @@ ("urx" :> Max2(a0, a2)) @@ ("ury" :> Max2(a1, a3))
      \* The box of the value of a box entry: an array of four numbers.
      boxOfValue(box) ==
        IF box.Type = "ARRAY"
        THEN [err |-> "",
              box |-> boxOfArray(box.Array[1].Real, box.Array[2].Real,
                                 box.Array[3].Real, box.Array[4].Real)]
        ELSE [err |-> "Could not get page box", box |-> EmptyMap]
  IN
  IF raw.Type = "OBJREF" /\ res.err # ""
  THEN [err |-> "Failed to resolve object", box |-> EmptyMap]
  ELSE boxOfValue(IF raw.Type = "OBJREF" THEN res.val.Value ELSE raw)

\* getPageBox: the box of the page, else of the nearest ancestor that has
\* it, else the empty map.
RECURSIVE getPageBox(_, _, _, _)
RECURSIVE getParentPageBox(_, _, _, _)
getParentPageBox(pr, parentObj, box_index, k) ==
  IF parentObj.err # ""
  THEN [err |-> "Could not resolve parent object", box |-> EmptyMap]
  ELSE getPageBox(pr, parentObj.val, box_index, k)

getPageBox(pr, page, box_index, k) ==
  IF box_index \in DOMAIN page.Value.Dictionary
  THEN boxOfEntry(page.Value.Dictionary[box_index],
                  resolveObject(pr, page.Value.Dictionary[box_index]), k)
  ELSE IF "/Parent" \in DOMAIN page.Value.Dictionary
  THEN getParentPageBox(pr, resolveObject(pr, page.Value.Dictionary["/Parent"]), box_index, k)
  ELSE [err |-> "", box |-> EmptyMap]

getPageBoxes(pr, pageno, k) ==
  LET
      \* The boxes of the resolved page, one for every name of availableBoxes.
      pageBoxesOf(page, names) ==
        IF \E b \in names : getPageBox(pr, page, b, k).err # ""
        THEN [status |-> "error", boxes |-> EmptyMap]
        ELSE [status |-> "ok", boxes |-> [b \in names |-> getPageBox(pr, page, b, k).box]]
  IN
  IF Len(pr.pages) < pageno
  THEN [status |-> "error", boxes |-> EmptyMap]
  ELSE IF pageno < 1
  THEN [status |-> "panic", boxes |-> EmptyMap]
  ELSE pageBoxesOf(resolveObject(pr, pr.pages[pageno]).val, Range(pr.availableBoxes))

getPageResources(pr, pageno) ==
  LET
      \* The value of getPageResources for the resolved object res: the Value of
      \* an object, else res itself.
      resourcesOf(res) ==
        IF res.err # "" THEN [status |-> "error", val |-> NilValue]
        ELSE IF res.val.Type = "OBJECT" THEN [status |-> "ok", val |-> res.val.Value]
        ELSE [status |-> "ok", val |-> res.val]
      \* getPageResources for the page dictionary d: its /Resources, resolved;
      \* without one, its /Parent, resolved.
      pageResourcesOf(d) ==
        IF "/Resources" \in DOMAIN d THEN resourcesOf(resolveObject(pr, d["/Resources"]))
        ELSE IF "/Parent" \in DOMAIN d THEN resourcesOf(resolveObject(pr, d["/Parent"]))
        ELSE [status |-> "ok", val |-> [Type |-> ""]]
  IN
  IF Len(pr.pages) < pageno
  THEN [status |-> "error", val |-> NilValue]
  ELSE IF pageno < 1
  THEN [status |-> "panic", val |-> NilValue]
  ELSE pageResourcesOf(resolveObject(pr, pr.pages[pageno]).val.Value.Dictionary)

RECURSIVE getPageContent(_, _)
getPageContent(pr, objSpec) ==
  LET
      \* getPageContent: the streams a /Contents value names, in order.
      contentOf(content) ==
        IF content.err # "" THEN [err |-> "Failed to resolve object", contents |-> <<>>]
        ELSE [err |-> "", contents |-> <<content.val>>]
  IN
  IF objSpec.Type = "OBJREF" THEN contentOf(resolveObject(pr, objSpec))
  ELSE IF objSpec.Type = "ARRAY"
  THEN LET RECURSIVE walk(_, _)
           walk(i, acc) ==
             IF i > Len(objSpec.Array) THEN [err |-> "", contents |-> acc]
             ELSE LET tmp == getPageContent(pr, objSpec.Array[i]) IN
                  IF tmp.err # "" THEN [err |-> "Failed to get page content", contents |-> <<>>]
                  ELSE walk(i + 1, acc \o tmp.contents)
       IN walk(1, <<>>)
  ELSE [err |-> "", contents |-> <<>>]

\* rebuildContentStream: the sources modelled here carry no /Filter, the
\* payload is returned as it is; any filter but /FlateDecode is an error.
rebuildContentStream(pr, content) ==
  IF "/Filter" \in DOMAIN content.Value.Dictionary
  THEN [err |-> "Unspported filter", bytes |-> ""]
  ELSE [err |-> "", bytes |-> content.Stream.Bytes]

getContent(pr, pageno) ==
  IF Len(pr.pages) < pageno
  THEN [status |-> "error", buffer |-> ""]
  ELSE IF pageno < 1
  THEN [status |-> "panic", buffer |-> ""]
  ELSE LET d == pr.pages[pageno].Value.Dictionary IN
       IF "/Contents" \in DOMAIN d
       THEN LET c == getPageContent(pr, d["/Contents"])
                RECURSIVE cat(_, _)
                cat(i, acc) ==
                  IF i > Len(c.contents) THEN [status |-> "ok", buffer |-> acc]
                  ELSE LET t == rebuildContentStream(pr, c.contents[i]) IN
                       IF t.err # "" THEN [status |-> "error", buffer |-> ""]
                       ELSE cat(i + 1, acc \o t.bytes)
            IN IF c.err # "" THEN [status |-> "error", buffer |-> ""] ELSE cat(1, "")
       ELSE [status |-> "ok", buffer |-> ""]

\* _getPageRotation: the /Rotate of the page, else of the nearest ancestor
\* that has one, else 0.
RECURSIVE getPageRotationOf(_, _)
RECURSIVE getPageRotationOfPage(_, _)
getPageRotationOfPage(pr, page) ==
  LET
      \* The rotation of the resolved /Rotate value res.
      rotationOf(res) ==
        IF res.err # "" THEN [err |-> "Failed to resolve rotate object", Int |-> 0]
        ELSE IF res.val.Type = "OBJECT"
        THEN [err |-> "", Int |-> IF "Int" \in DOMAIN res.val.Value THEN res.val.Value.Int ELSE 0]
        ELSE [err |-> "", Int |-> IF "Int" \in DOMAIN res.val THEN res.val.Int ELSE 0]
  IN
  IF page.err # "" THEN [err |-> "Failed to resolve page object", Int |-> 0]
  ELSE IF "/Rotate" \in DOMAIN page.val.Value.Dictionary
  THEN rotationOf(resolveObject(pr, page.val.Value.Dictionary["/Rotate"]))
  ELSE IF "/Parent" \in DOMAIN page.val.Value.Dictionary
  THEN getPageRotationOf(pr, page.val.Value.Dictionary["/Parent"])
  ELSE [err |-> "", Int |-> 0]

getPageRotationOf(pr, pageSpec) == getPageRotationOfPage(pr, resolveObject(pr, pageSpec))

getPageRotation(pr, pageno) ==
  IF Len(pr.pages) < pageno
  THEN [status |-> "error", Int |-> 0]
  ELSE IF pageno < 1
  THEN [status |-> "panic", Int |-> 0]
  ELSE LET r == getPageRotationOf(pr, pr.pages[pageno]) IN
       [status |-> IF r.err # "" THEN "error" ELSE "ok", Int |-> r.Int]

(***************************************************************************)
(* PdfWriter (writer.go).                                                  *)
(***************************************************************************)
\* The scan ceiling of the drain loop: for i := 0; i < 9999; i++.
ScanLimit == 9999

\* sha1 + hex: 40 characters, modelled as an injective 40 character
\* encoding of the hashed text (texts here are shorter than 40 characters).
Sha1Hex(text) == text \o SubSeq("########################################", 1, 40 - Len(text))

\* zlib deflate of the page content, an opaque encoding of its input.
Deflate(text) == "zlib(" \o text \o ")"

\* fmt "%F", "%.2F" and "%.5F" of an integer valued float64; NegFmt5F formats the
\* negation of v, which for v = 0 is the float -0.
FmtF(v) == ToString(v) \o ".000000"

Fmt2F(v) == ToString(v) \o ".00"

Fmt5F(v) == ToString(v) \o ".00000"

NegFmt5F(v) == IF v = 0 THEN "-0.00000" ELSE ToString(-v) \o ".00000"

\* "%.5F" of cos, sin and -sin of rotation * Pi / 180 (float64 results).
CosFmt(rot) ==
  CASE rot = 0 -> "1.00000" [] rot = -90 -> "0.00000" [] rot = -180 -> "-1.00000"
    [] rot = -270 -> "-0.00000" [] OTHER -> "cos(" \o ToString(rot) \o ")"

SinFmt(rot) ==
  CASE rot = 0 -> "0.00000" [] rot = -90 -> "-1.00000" [] rot = -180 -> "-0.00000"
    [] rot = -270 -> "1.00000" [] OTHER -> "sin(" \o ToString(rot) \o ")"

NegSinFmt(rot) ==
  CASE rot = 0 -> "-0.00000" [] rot = -90 -> "1.00000" [] rot = -180 -> "0.00000"
    [] rot = -270 -> "-1.00000" [] OTHER -> "-sin(" \o ToString(rot) \o ")"

Init_PdfWriter ==
  [k |-> 1,
   tpls |-> <<>>,
   n |-> 0,
   obj_stack |-> EmptyMap,
   don_obj_stack |-> EmptyMap,
   written_objs |-> EmptyMap,
   written_obj_pos |-> EmptyMap,
   current_obj |-> [id |-> [ptr |-> 0, id |-> 0, hash |-> ""], buffer |-> ""],
   current_obj_id |-> 0,
   tpl_id_offset |-> 0,
   use_hash |-> FALSE,
   r |-> "",
   nptr |-> 0,
   log |-> <<>>]

SetTplIdOffset(pw, n) == [pw EXCEPT !.tpl_id_offset = n]

SetUseHash(pw, b) == [pw EXCEPT !.use_hash = b]

\* The history of pw with one more event: ev is "alloc" (an output id was
\* given to the template or source object src), "emit" (its body was
\* completed), "seed" (SetNextObjectID) or "put" (a PutFormXobjects call of
\* the facade begins, kind is its name); ptr is the object being written.
Logged(pw, ev, kind, src, id) ==
  [pw EXCEPT !.log = Append(@, [ev |-> ev, kind |-> kind, src |-> src, id |-> id,
                                ptr |-> pw.current_obj.id.ptr])]

\* A seed that makes id the last id given out instead of the next one.
SetNextObjectIDOffByOne(pw, id) == Logged([pw EXCEPT !.n = id], "seed", "", 0, id)

SetNextObjectID(pw, id) == Logged([pw EXCEPT !.n = id - 1], "seed", "", 0, id)

shaOfInt(pw, i) ==
  Sha1Hex(ToString(pw.tpl_id_offset) \o "-" \o ToString(i) \o "-" \o pw.r)

newObj(pw, objId, onlyNewObj) ==
  LET n1 == IF objId < 0 THEN pw.n + 1 ELSE pw.n
      id1 == IF objId < 0 THEN n1 ELSE objId
      pw1 == [pw EXCEPT !.n = n1]
      oid == [ptr |-> pw.nptr + 1, id |-> id1, hash |-> shaOfInt(pw1, id1)]
  IN IF onlyNewObj THEN pw1
     ELSE [pw1 EXCEPT !.current_obj_id = id1,
                      !.current_obj = [id |-> oid, buffer |-> ""],
                      !.nptr = pw.nptr + 1,
                      !.written_obj_pos = MapSet(@, oid, EmptyMap)]

straightOut(pw, text) == [pw EXCEPT !.current_obj.buffer = @ \o text]

out(pw, text) == [pw EXCEPT !.current_obj.buffer = @ \o text \o "\n"]

endObj(pw) ==
  LET pw1 == out(pw, "endobj")
  IN [pw1 EXCEPT !.written_objs = MapSet(@, pw1.current_obj.id, pw1.current_obj.buffer),
                 !.current_obj_id = -1]

\* An outObjRef that records the position after the reference was written.
outObjRefPositionAfter(pw, objId) ==
  LET sha == shaOfInt(pw, objId)
      cur == pw.current_obj.id
      pw1 == IF pw.use_hash THEN straightOut(pw, sha) ELSE straightOut(pw, ToString(objId))
      pw2 == [pw1 EXCEPT !.written_obj_pos =
                MapSet(@, cur, MapSet(IF cur \in DOMAIN @ THEN @[cur] ELSE EmptyMap,
                                      Len(pw1.current_obj.buffer), sha))]
  IN straightOut(pw2, " 0 R ")

outObjRef(pw, objId) ==
  LET sha == shaOfInt(pw, objId)
      cur == pw.current_obj.id
      pw1 == [pw EXCEPT !.written_obj_pos =
                MapSet(@, cur, MapSet(IF cur \in DOMAIN @ THEN @[cur] ELSE EmptyMap,
                                      Len(pw.current_obj.buffer), sha))]
      pw2 == IF pw.use_hash THEN straightOut(pw1, sha)
             ELSE straightOut(pw1, ToString(objId))
  IN straightOut(pw2, " 0 R ")

\* Every order in which a range over a map with the keys S can visit them.
KeyOrders(S) ==
  {o \in [1..Cardinality(S) -> S] : \A i, j \in 1..Cardinality(S) : i # j => o[i] # o[j]}

\* A test that takes a source object for met only when it has been given
\* an output id twice.
inDonObjStackOnThirdMeeting(pw, id) ==
  Cardinality({i \in DOMAIN pw.log :
                 pw.log[i].ev = "alloc" /\ pw.log[i].kind = "obj" /\ pw.log[i].src = id}) >= 2

\* _, ok := pw.don_obj_stack[value.Id]: has the source object been met?
inDonObjStack(pw, id) == id \in DOMAIN pw.don_obj_stack

\* writeValue(pw, value): the writers the call can leave, one per order in
\* which the dictionaries met are visited.
RECURSIVE writeValue(_, _)
writeValue(pw, value) ==
  LET RECURSIVE writeArray(_, _)
      writeArray(S, i) ==
        IF i > Len(value.Array) THEN S
        ELSE writeArray(UNION {writeValue(x, value.Array[i]) : x \in S}, i + 1)
      RECURSIVE writeEntries(_, _, _)
      writeEntries(S, o, i) ==
        IF i > Len(o) THEN S
        ELSE writeEntries(
               UNION {writeValue(straightOut(x, o[i] \o " "), value.Dictionary[o[i]]) : x \in S},
               o, i + 1)
  IN CASE value.Type = "TOKEN" -> {straightOut(pw, value.Token \o " ")}
       [] value.Type = "NUMERIC" -> {straightOut(pw, ToString(value.Int) \o " ")}
       [] value.Type = "REAL" -> {straightOut(pw, FmtF(value.Real) \o " ")}
       [] value.Type = "ARRAY" ->
            {out(x, "]") : x \in writeArray({straightOut(pw, "[")}, 1)}
       [] value.Type = "DICTIONARY" ->
            {straightOut(x, ">>") :
               x \in UNION {writeEntries({straightOut(pw, "<<")}, o, 1) :
                              o \in KeyOrders(DOMAIN value.Dictionary)}}
       [] value.Type = "OBJREF" ->
            LET seen == inDonObjStack(pw, value.Id)
                pw1 == newObj(pw, -1, TRUE)
                entry == [Type |-> "OBJREF", Gen |-> value.Gen, Id |-> value.Id, NewId |-> pw1.n]
                pw2 == IF seen THEN pw
                       ELSE Logged([pw1 EXCEPT !.obj_stack = MapSet(@, value.Id, entry),
                                               !.don_obj_stack = MapSet(@, value.Id, entry)],
                                   "alloc", "obj", value.Id, pw1.n)
            IN {outObjRef(pw2, pw2.don_obj_stack[value.Id].NewId)}
       [] value.Type = "STRING" -> {straightOut(pw, "(" \o value.String \o ")")}
       [] value.Type = "STREAM" ->
            {out(out(out(x, "stream"), value.Stream.Bytes), "endstream") :
               x \in writeValue(pw, value.Value)}
       [] value.Type = "HEX" -> {straightOut(pw, "<" \o value.String \o ">")}
       [] value.Type = "BOOLEAN" ->
            {straightOut(pw, IF value.Bool THEN "true " ELSE "false ")}
       [] value.Type = "NULL" -> {straightOut(pw, "null ")}
       [] OTHER -> {pw}

\* PdfWriter.ImportPage: [status, pw, res]; res is the index of the new
\* template in pw.tpls (from 0) or -1.
\* "Normalize angle" in ImportPage, for angle = rotation.Int % 360: the
\* sides are exchanged when angle is not 0 and steps = angle / 90 is odd ...
swapsSides(angle) == angle # 0 /\ GoRem(GoQuo(angle, 90), 2) # 0

\* A rotation that keeps the sign of a negative angle: tpl.Rotation without
\* the `angle += 360` of negative angles.
normalizedRotationKeepsSign(angle) == angle * (-1)

\* ... and tpl.Rotation is minus the angle brought into 0..359 (0, the zero
\* value of the field, when angle is 0).
normalizedRotation(angle) ==
  IF angle = 0 THEN 0
  ELSE (IF angle < 0 THEN angle + 360 ELSE angle) * (-1)

ImportPage(pw, reader, pageno, boxName) ==
  LET
      \* The box name used for a name the page has no box for.
      alternateBox(pageBoxes) ==
        IF boxName \notin DOMAIN pageBoxes
        THEN IF boxName = "/BleedBox" \/ boxName = "/TrimBox" \/ boxName = "ArtBox"
             THEN "/CropBox"
             ELSE IF boxName = "/CropBox" THEN "/MediaBox" ELSE boxName
        ELSE boxName
      \* tpl := &PdfTemplate{}: the template of a page with the box `box` and the
      \* angle rotation.Int % 360.
      newTemplate(pageResources, content, box, pageBoxes, angle) ==
        [Id |-> 0,
         Reader |-> reader.sourceFile,
         Resources |-> pageResources.val,
         Buffer |-> content.buffer,
         Box |-> box,
         Boxes |-> pageBoxes,
         X |-> 0,
         Y |-> 0,
         W |-> IF swapsSides(angle) THEN BoxGet(box, "h") ELSE BoxGet(box, "w"),
         H |-> IF swapsSides(angle) THEN BoxGet(box, "w") ELSE BoxGet(box, "h"),
         Rotation |-> normalizedRotation(angle),
         N |-> 0]
      \* An ImportPage that returns -1: an error, or a panic on the way.
      importFailed(st, pw1) == [status |-> st, pw |-> pw1, res |-> -1]
      \* ImportPage once the boxes, the box name, the resources, the content and
      \* the rotation of the page are there.
      importTemplate(pw1, pageBoxes, boxName1, pageResources, content, rotation) ==
        IF boxName1 \notin DOMAIN pageBoxes THEN importFailed("error", pw1)
        ELSE IF pageResources.status # "ok" THEN importFailed(pageResources.status, pw1)
        ELSE IF content.status # "ok" THEN importFailed(content.status, pw1)
        ELSE IF rotation.status # "ok" THEN importFailed(rotation.status, pw1)
        ELSE [status |-> "ok",
              pw |-> [pw1 EXCEPT !.tpls = Append(@, newTemplate(pageResources, content,
                                                                pageBoxes[boxName1], pageBoxes,
                                                                GoRem(rotation.Int, 360)))],
              res |-> Len(pw1.tpls)]
      \* ImportPage after reader.getPageBoxes(1, pw.k) returned pb.
      importWithBoxes(pw1, pb) ==
        IF pb.status # "ok" THEN importFailed(pb.status, pw1)
        ELSE importTemplate(pw1, pb.boxes, alternateBox(pb.boxes),
                            getPageResources(reader, pageno), getContent(reader, pageno),
                            getPageRotation(reader, pageno))
      \* ImportPage after pw.k = 1.
      importScaled(pw1) ==
        importWithBoxes(pw1, getPageBoxes(reader, 1, pw1.k))
  IN
  importScaled([pw EXCEPT !.k = 1])

\* One pass of the inner loop of putImportedObjects from index i on: the
\* pending entry with the least key in i..ScanLimit-1 is emitted, entries
\* queued meanwhile under a larger key are met in the same pass.
RECURSIVE drainPass(_, _, _, _)
drainPass(pw, reader, i, atLeastOne) ==
  LET cand == {k \in DOMAIN pw.obj_stack :
                 k >= i /\ k < ScanLimit /\ pw.obj_stack[k] # NilValue}
  IN IF cand = {} THEN {[pw |-> pw, err |-> "", atLeastOne |-> atLeastOne]}
     ELSE LET k == CHOOSE x \in cand : \A y \in cand : x <= y
              v == pw.obj_stack[k]
              nObj == resolveObject(reader, v)
              pw1 == newObj(pw, v.NewId, FALSE)
              written == writeValue(pw1, IF nObj.val.Type = "STREAM" THEN nObj.val
                                         ELSE nObj.val.Value)
              done(x) == [Logged(endObj(x), "emit", "obj", k, v.NewId)
                            EXCEPT !.obj_stack = MapSet(@, k, NilValue)]
          IN IF nObj.err # ""
             THEN {[pw |-> pw, err |-> "Unable to resolve object", atLeastOne |-> TRUE]}
             ELSE UNION {drainPass(done(x), reader, k + 1, TRUE) : x \in written}

RECURSIVE putImportedObjects(_, _)
putImportedObjects(pw, reader) ==
  UNION {IF o.err # "" \/ ~o.atLeastOne
         THEN {[pw |-> o.pw, err |-> o.err]}
         ELSE putImportedObjects(o.pw, reader) :
           o \in drainPass(pw, reader, 0, FALSE)}

\* The Form XObject of template i (from 1 in pw.tpls, from 0 in its name),
\* followed by the drain of its dependencies.
putFormXobject(pw, reader, i) ==
  LET tpl == pw.tpls[i]
      p == Deflate(tpl.Buffer)
      pw1 == newObj(pw, -1, FALSE)
      cN == pw1.n
      pw2 == Logged([pw1 EXCEPT !.tpls[i].N = cN], "alloc", "tpl", i - 1, cN)
      pdfObjId == [id |-> cN, hash |-> shaOfInt(pw2, cN)]
      name == "/GOFPDITPL" \o ToString((i - 1) + pw.tpl_id_offset)
      llx == BoxGet(tpl.Box, "llx")
      lly == BoxGet(tpl.Box, "lly")
      urx == BoxGet(tpl.Box, "urx")
      ury == BoxGet(tpl.Box, "ury")
      head == out(out(out(out(pw2, "<</Filter /FlateDecode /Type /XObject"),
                          "/Subtype /Form"), "/FormType 1"),
                  "/BBox [" \o Fmt2F(llx * pw.k) \o " " \o Fmt2F(lly * pw.k) \o " "
                    \o Fmt2F((urx + tpl.X) * pw.k) \o " " \o Fmt2F((ury - tpl.Y) * pw.k) \o "]")
      txZero == CASE tpl.Rotation = -90 -> lly = 0 [] tpl.Rotation = -180 -> urx = 0
                  [] tpl.Rotation = -270 -> ury = 0 [] OTHER -> llx = 0
      tyZero == CASE tpl.Rotation = -90 -> urx = 0 [] tpl.Rotation = -180 -> ury = 0
                  [] tpl.Rotation = -270 -> llx = 0 [] OTHER -> lly = 0
      tx == CASE tpl.Rotation = -90 -> NegFmt5F(lly) [] tpl.Rotation = -180 -> Fmt5F(urx)
              [] tpl.Rotation = -270 -> Fmt5F(ury) [] OTHER -> NegFmt5F(llx)
      ty == CASE tpl.Rotation = -90 -> Fmt5F(urx) [] tpl.Rotation = -180 -> Fmt5F(ury)
              [] tpl.Rotation = -270 -> NegFmt5F(llx) [] OTHER -> NegFmt5F(lly)
      matrix == IF tpl.Rotation # 0 \/ ~txZero \/ ~tyZero
                THEN out(head, "/Matrix [" \o CosFmt(tpl.Rotation) \o " " \o SinFmt(tpl.Rotation)
                           \o " " \o NegSinFmt(tpl.Rotation) \o " " \o CosFmt(tpl.Rotation)
                           \o " " \o tx \o " " \o ty \o "]")
                ELSE head
      res == out(matrix, "/Resources ")
      tail(x) ==
        LET nN == x.n
            x1 == out(out(out(out([x EXCEPT !.n = cN],
                                  "/Length " \o ToString(Len(p)) \o " >>"),
                              "stream"), p), "endstream")
            x2 == Logged(endObj(x1), "emit", "tpl", i - 1, cN)
        IN [x2 EXCEPT !.n = nN]
  IN IF tpl.Resources = NilValue
     THEN {[pw |-> res, err |-> "Template resources are empty", name |-> name, id |-> pdfObjId]}
     ELSE {[pw |-> o.pw, err |-> o.err, name |-> name, id |-> pdfObjId] :
             o \in UNION {putImportedObjects(tail(x), reader) :
                            x \in writeValue(res, tpl.Resources)}}

\* PdfWriter.PutFormXobjects: the outcomes [pw, err, result]; result maps
\* the template names to their PdfObjectId (empty with an error).
PutFormXobjects(pw, reader) ==
  LET RECURSIVE loop(_, _)
      loop(S, i) ==
        IF i > Len(pw.tpls) THEN S
        ELSE loop(UNION {IF o.err # "" THEN {o}
                         ELSE {[pw |-> t.pw, err |-> t.err,
                                result |-> IF t.err # "" THEN EmptyMap
                                           ELSE MapSet(o.result, t.name, t.id)] :
                                 t \in putFormXobject(o.pw, reader, i)} : o \in S},
                  i + 1)
  IN loop({[pw |-> [pw EXCEPT !.r = reader.sourceFile], err |-> "", result |-> EmptyMap]}, 1)

(***************************************************************************)
(* float64 placement math: exact fractions n/d (d > 0, lowest terms), NaN  *)
(* and +-Inf.  The sign of a zero is not kept (0 = -0 in every comparison  *)
(* made by the code).                                                      *)
(***************************************************************************)
RECURSIVE Gcd(_, _)
Gcd(a, b) == IF b = 0 THEN a ELSE Gcd(b, a % b)

Sign(a) == IF a < 0 THEN -1 ELSE IF a > 0 THEN 1 ELSE 0

Fin(n, d) ==
  LET g == Gcd(Abs(n), Abs(d))
  IN [k |-> "fin", n |-> (Sign(d) * n) \div g, d |-> Abs(d) \div g]

NaN == [k |-> "nan", n |-> 0, d |-> 0]

Inf(sgn) == [k |-> "inf", n |-> sgn, d |-> 0]

FInt(i) == Fin(i, 1)

FIsZero(a) == a.k = "fin" /\ a.n = 0

FNeg(a) == IF a.k = "nan" THEN NaN ELSE IF a.k = "inf" THEN Inf(-a.n) ELSE Fin(-a.n, a.d)

FMul(a, b) ==
  IF a.k = "nan" \/ b.k = "nan" THEN NaN
  ELSE IF a.k = "inf" \/ b.k = "inf"
  THEN IF FIsZero(a) \/ FIsZero(b) THEN NaN ELSE Inf(Sign(a.n) * Sign(b.n))
  ELSE Fin(a.n * b.n, a.d * b.d)

FDiv(a, b) ==
  IF a.k = "nan" \/ b.k = "nan" THEN NaN
  ELSE IF a.k = "inf" THEN IF b.k = "inf" THEN NaN
                           ELSE Inf(a.n * (IF Sign(b.n) = 0 THEN 1 ELSE Sign(b.n)))
  ELSE IF b.k = "inf" THEN Fin(0, 1)
  ELSE IF b.n = 0 THEN IF a.n = 0 THEN NaN ELSE Inf(Sign(a.n))
  ELSE Fin(a.n * b.d, a.d * b.n)

FAdd(a, b) ==
  IF a.k = "nan" \/ b.k = "nan" THEN NaN
  ELSE IF a.k = "inf" THEN IF b.k = "inf" /\ b.n # a.n THEN NaN ELSE a
  ELSE IF b.k = "inf" THEN b
  ELSE Fin(a.n * b.d + b.n * a.d, a.d * b.d)

FSub(a, b) == FAdd(a, FNeg(b))

\* A getTemplateSize that fills a missing side with the inverse aspect ratio.
getTemplateSizeInverseAspect(pw, tplid, w0, h0) ==
  LET tpl == pw.tpls[tplid + 1]
      w == FInt(tpl.W)
      h == FInt(tpl.H)
      both == FIsZero(w0) /\ FIsZero(h0)
      w1 == IF both THEN w ELSE w0
      h1 == IF both THEN h ELSE h0
      w2 == IF FIsZero(w1) THEN FDiv(FMul(h1, h), w) ELSE w1
      h2 == IF FIsZero(h1) THEN FDiv(FMul(w2, w), h) ELSE h1
  IN [w |-> w2, h |-> h2]

\* getTemplateSize: tplid counts from 0 as in the code.
getTemplateSize(pw, tplid, w0, h0) ==
  LET tpl == pw.tpls[tplid + 1]
      w == FInt(tpl.W)
      h == FInt(tpl.H)
      both == FIsZero(w0) /\ FIsZero(h0)
      w1 == IF both THEN w ELSE w0
      h1 == IF both THEN h ELSE h0
      w2 == IF FIsZero(w1) THEN FDiv(FMul(h1, w), h) ELSE w1
      h2 == IF FIsZero(h1) THEN FDiv(FMul(w2, h), w) ELSE h1
  IN [w |-> w2, h |-> h2]

UseTemplate(pw, tplid, x0, y0, w0, h0) ==
  LET tpl == pw.tpls[tplid + 1]
      w == FInt(tpl.W)
      h == FInt(tpl.H)
      x1 == FAdd(x0, FInt(tpl.X))
      y1 == FAdd(y0, FInt(tpl.Y))
      wh == getTemplateSize(pw, 0, w0, h0)
      w1 == wh.w
      h1 == wh.h
  IN [name |-> "/GOFPDITPL" \o ToString(tplid + pw.tpl_id_offset),
      scaleX |-> FDiv(w1, w),
      scaleY |-> FDiv(h1, h),
      tx |-> FMul(x1, FInt(pw.k)),
      ty |-> FMul(FSub(FSub(FInt(0), y1), h1), FInt(pw.k))]

(***************************************************************************)
(* Importer (importer.go): the facade.  A panic leaves the Importer as the *)
(* statements before it left it; ret is what the last call returned.       *)
(* calls counts the calls that changed the Importer.                       *)
(***************************************************************************)
\* Importer.GetImportedObjectsUnordered: the Writer's bodies keyed by the
\* hash of their object.  Two objects with one hash share a key: the map
\* then holds the body the range over written_objs visits last, any of them
\* (the value here is the set of the bodies the key can hold).
GetImportedObjectsUnordered(pw) ==
  [h \in {o.hash : o \in DOMAIN pw.written_objs} |->
     {pw.written_objs[o] : o \in {x \in DOMAIN pw.written_objs : x.hash = h}}]

\* Importer.GetImportedObjHashPos: the position maps keyed the same way.
GetImportedObjHashPos(pw) ==
  [h \in {o.hash : o \in DOMAIN pw.written_obj_pos} |->
     {pw.written_obj_pos[o] : o \in {x \in DOMAIN pw.written_obj_pos : x.hash = h}}]

\* Inputs of the calls.
PageNos == 0..3

BoxArgs == {"/MediaBox", "/CropBox", "/BleedBox", "/TrimBox", "/ArtBox", "ArtBox"}

SeedIds == {1, 3}

UseX == {10}

UseY == {20}

UseW == {0, 50}

UseH == {0, 100}

\* fmt "%04d"
Fmt04d(i) ==
  IF i < 0 THEN "-" \o SubSeq("000", 1, Max2(0, 3 - Len(ToString(-i)))) \o ToString(-i)
  ELSE SubSeq("0000", 1, Max2(0, 4 - Len(ToString(i)))) \o ToString(i)

pageNameNumber(file, pageno) == file \o "-" \o Fmt04d(pageno)

\* GetWriter() and GetReader() return nil when the current source was never
\* opened.
HasWriter == sourceFile \in DOMAIN writers

HasReader == sourceFile \in DOMAIN readers

Init ==
  /\ sourceFile = ""
  /\ readers = EmptyMap
  /\ writers = EmptyMap
  /\ tplMap = EmptyMap
  /\ tplN = 0
  /\ importedPages = EmptyMap
  /\ ret = [op |-> "NewImporter", status |-> "ok"]
  /\ calls = 0

\* SetSourceFile(f) and SetSourceStream(rs) differ in how the source name
\* and the reader are obtained only.
SetSource(op, f) ==
  /\ sourceFile' = f
  /\ IF f \notin DOMAIN readers /\ NewPdfReaderResult(f).status # "ok"
     THEN /\ ret' = [op |-> op, status |-> "panic", f |-> f]
          /\ UNCHANGED <<readers, writers>>
     ELSE /\ readers' = IF f \in DOMAIN readers THEN readers
                        ELSE MapSet(readers, f, NewPdfReader(f))
          /\ writers' = IF f \in DOMAIN writers THEN writers
                        ELSE MapSet(writers, f, SetTplIdOffset(Init_PdfWriter, tplN))
          /\ ret' = [op |-> op, status |-> "ok", f |-> f]
  /\ UNCHANGED <<tplMap, tplN, importedPages, calls>>

\* An ImportPage without the page cache, as the Importer was before the
\* cache was added: every call imports.
ImportPageNeverCached(pageno) == FALSE

\* The early return of Importer.ImportPage: the page of the current source
\* is in the cache.
ImportPageCached(pageno) == pageNameNumber(sourceFile, pageno) \in DOMAIN importedPages

\* The tail of ImportPage with the increment of tplN left out.
ImportPageRecordNoIncrement(call, res) ==
  /\ tplMap' = MapSet(tplMap, tplN, [SourceFile |-> sourceFile, TemplateId |-> res])
  /\ tplN' = tplN
  /\ importedPages' = MapSet(importedPages, pageNameNumber(sourceFile, call.pageno), tplN)
  /\ ret' = call @@ [status |-> "ok", cached |-> FALSE, tplN |-> tplN]

\* The tail of Importer.ImportPage after the Writer returned the local index
\* res: the facade id is recorded, counted, cached and returned.
ImportPageRecord(call, res) ==
  /\ tplMap' = MapSet(tplMap, tplN, [SourceFile |-> sourceFile, TemplateId |-> res])
  /\ tplN' = tplN + 1
  /\ importedPages' = MapSet(importedPages, pageNameNumber(sourceFile, call.pageno), tplN)
  /\ ret' = call @@ [status |-> "ok", cached |-> FALSE, tplN |-> tplN]

ImportPageCall(pageno, box, maxCalls) ==
  LET call == [op |-> "ImportPage", file |-> sourceFile, pageno |-> pageno, box |-> box]
  IN IF ImportPageCached(pageno)
     THEN /\ ret' = call @@ [status |-> "ok", cached |-> TRUE,
                             tplN |-> importedPages[pageNameNumber(sourceFile, pageno)]]
          /\ UNCHANGED <<sourceFile, readers, writers, tplMap, tplN, importedPages, calls>>
     ELSE IF ~HasWriter \/ ~HasReader
     THEN /\ ret' = call @@ [status |-> "panic", cached |-> FALSE, tplN |-> -1]
          /\ UNCHANGED <<sourceFile, readers, writers, tplMap, tplN, importedPages, calls>>
     ELSE LET r == ImportPage(writers[sourceFile], readers[sourceFile], pageno, box) IN
          IF r.status # "ok"
          THEN /\ ret' = call @@ [status |-> "panic", cached |-> FALSE, tplN |-> -1]
               /\ writers' = [writers EXCEPT ![sourceFile] = r.pw]
               /\ UNCHANGED <<sourceFile, readers, tplMap, tplN, importedPages, calls>>
          ELSE /\ calls < maxCalls
               /\ calls' = calls + 1
               /\ writers' = [writers EXCEPT ![sourceFile] = r.pw]
               /\ ImportPageRecord(call, r.res)
               /\ UNCHANGED <<sourceFile, readers>>

SetNextObjectIDCall(objId, maxCalls) ==
  /\ calls < maxCalls
  /\ IF ~HasWriter
     THEN /\ ret' = [op |-> "SetNextObjectID", status |-> "panic", objId |-> objId]
          /\ UNCHANGED <<writers, calls>>
     ELSE /\ writers' = [writers EXCEPT ![sourceFile] = SetNextObjectID(@, objId)]
          /\ calls' = calls + 1
          /\ ret' = [op |-> "SetNextObjectID", status |-> "ok", objId |-> objId]
  /\ UNCHANGED <<sourceFile, readers, tplMap, tplN, importedPages>>

\* PutFormXobjects (hash = FALSE) and PutFormXobjectsUnordered (hash = TRUE).
PutFormCall(op, hash, maxCalls) ==
  /\ calls < maxCalls
  /\ IF ~HasWriter \/ ~HasReader
     THEN /\ ret' = [op |-> op, status |-> "panic", file |-> sourceFile, result |-> EmptyMap]
          /\ UNCHANGED <<writers, calls>>
     ELSE \E o \in PutFormXobjects(IF hash
                                   THEN SetUseHash(Logged(writers[sourceFile], "put", op, 0, 0), TRUE)
                                   ELSE Logged(writers[sourceFile], "put", op, 0, 0),
                                   readers[sourceFile]) :
            /\ writers' = [writers EXCEPT ![sourceFile] = o.pw]
            /\ calls' = calls + 1
            /\ ret' = [op |-> op, file |-> sourceFile,
                       status |-> IF o.err # "" THEN "panic" ELSE "ok",
                       result |-> IF o.err # "" THEN EmptyMap
                                  ELSE [nm \in DOMAIN o.result |->
                                          IF hash THEN o.result[nm].hash ELSE o.result[nm].id]]
  /\ UNCHANGED <<sourceFile, readers, tplMap, tplN, importedPages>>

UseTemplateCall(tplid, x, y, w, h) ==
  LET call == [op |-> "UseTemplate", tplid |-> tplid, x |-> x, y |-> y,
               w |-> w, h |-> h]
  IN /\ IF tplid \notin DOMAIN tplMap
        THEN ret' = call @@ [status |-> "panic"]
        ELSE LET tplInfo == tplMap[tplid] IN
             ret' = call @@ [status |-> "ok"]
                      @@ UseTemplate(writers[tplInfo.SourceFile], tplInfo.TemplateId,
                                     FInt(x), FInt(y), FInt(w), FInt(h))
     /\ UNCHANGED <<sourceFile, readers, writers, tplMap, tplN, importedPages, calls>>

(***************************************************************************)
(* Spec: one Importer over the file a.pdf, the stream of b.pdf and a file  *)
(* that cannot be opened.                                                  *)
(***************************************************************************)
Importer_SetSourceFile == \E f \in {FileA, FileMissing} : SetSource("SetSourceFile", f)

Importer_SetSourceStream == SetSource("SetSourceStream", StreamB)

Importer_ImportPage ==
  \E pageno \in 1..3, box \in {"/MediaBox", "/CropBox"} : ImportPageCall(pageno, box, MaxCalls)

Importer_SetNextObjectID == SetNextObjectIDCall(3, MaxCalls)

Importer_PutFormXobjects == PutFormCall("PutFormXobjects", FALSE, MaxCalls)

Importer_PutFormXobjectsUnordered == PutFormCall("PutFormXobjectsUnordered", TRUE, MaxCalls)

Importer_UseTemplate ==
  \E tplid \in 0..tplN, x \in UseX, y \in UseY : UseTemplateCall(tplid, x, y, 0, 0)

Next ==
  \/ Importer_SetSourceFile
  \/ Importer_SetSourceStream
  \/ Importer_ImportPage
  \/ Importer_SetNextObjectID
  \/ Importer_PutFormXobjects
  \/ Importer_PutFormXobjectsUnordered
  \/ Importer_UseTemplate

Spec == Init /\ [][Next]_vars

(***************************************************************************)
(* SpecWriter: the Writer of a.pdf alone, with repeated PutFormXobjects    *)
(* calls and every seed.                                                   *)
(***************************************************************************)
Writer_SetSourceFile == SetSource("SetSourceFile", FileA)

Writer_ImportPage ==
  \E pageno \in 1..2, box \in {"/MediaBox"} : ImportPageCall(pageno, box, WriterMaxCalls)

Writer_SetNextObjectID == \E objId \in SeedIds : SetNextObjectIDCall(objId, WriterMaxCalls)

Writer_PutFormXobjects == PutFormCall("PutFormXobjects", FALSE, WriterMaxCalls)

Writer_PutFormXobjectsUnordered ==
  PutFormCall("PutFormXobjectsUnordered", TRUE, WriterMaxCalls)

Writer_UseTemplate ==
  \E tplid \in 0..tplN, x \in UseX, y \in UseY : UseTemplateCall(tplid, x, y, 0, 0)

NextWriter ==
  \/ Writer_SetSourceFile
  \/ Writer_ImportPage
  \/ Writer_SetNextObjectID
  \/ Writer_PutFormXobjects
  \/ Writer_PutFormXobjectsUnordered
  \/ Writer_UseTemplate

SpecWriter == Init /\ [][NextWriter]_vars

(***************************************************************************)
(* SpecBoxes: the template builder, every page number and box name.        *)
(***************************************************************************)
Boxes_SetSourceFile == SetSource("SetSourceFile", FileA)

Boxes_SetSourceStream == SetSource("SetSourceStream", StreamB)

Boxes_ImportPage ==
  \E pageno \in PageNos, box \in BoxArgs : ImportPageCall(pageno, box, BoxesMaxCalls)

NextBoxes ==
  \/ Boxes_SetSourceFile
  \/ Boxes_SetSourceStream
  \/ Boxes_ImportPage

SpecBoxes == Init /\ [][NextBoxes]_vars

(***************************************************************************)
(* SpecUse: the placement math, every size argument of UseTemplate.        *)
(***************************************************************************)
Use_SetSourceFile == SetSource("SetSourceFile", FileA)

Use_ImportPage ==
  \E pageno \in 1..2, box \in {"/MediaBox", "/CropBox"} : ImportPageCall(pageno, box, UseMaxCalls)

Use_UseTemplate ==
  \E tplid \in 0..tplN, x \in UseX, y \in UseY, w \in UseW, h \in UseH :
    UseTemplateCall(tplid, x, y, w, h)

NextUse ==
  \/ Use_SetSourceFile
  \/ Use_ImportPage
  \/ Use_UseTemplate

SpecUse == Init /\ [][NextUse]_vars

\* Imports from c.pdf, the document with a page tree of two levels: every
\* page, any order.
Tree_SetSourceFile == SetSource("SetSourceFile", FileC)

Tree_ImportPage ==
  \E pageno \in DOMAIN SourcePageIds(FileC), box \in {"/MediaBox"} :
    ImportPageCall(pageno, box, TreeMaxCalls)

NextTree ==
  \/ Tree_SetSourceFile
  \/ Tree_ImportPage

SpecTree == Init /\ [][NextTree]_vars

(***************************************************************************)
(* The Reader on its own: sources are opened and read, read() is called   *)
(* again, references are resolved, tokens are read.                        *)
(***************************************************************************)
\* NewPdfReader(f): the Reader is kept when it was returned.
Reader_NewPdfReader ==
  LET
      ReaderFiles ==
        {FileA, FileMissing, FileCountHigh, FileCountLow, FileBadKid, FilePrev, FilePrevCycle,
         FileNoStartxref, FileCut, FileStale, FileObjStm}
  IN
  \E f \in ReaderFiles :
    LET r == NewPdfReaderResult(f) IN
    /\ f \notin DOMAIN readers
    /\ calls < ReaderMaxCalls
    /\ calls' = calls + 1
    /\ readers' = IF r.status = "ok" THEN MapSet(readers, f, r.pr) ELSE readers
    /\ ret' = [op |-> "NewPdfReader", file |-> f, status |-> r.status]
    /\ UNCHANGED <<sourceFile, writers, tplMap, tplN, importedPages>>

\* pr.read() on a Reader that was returned.
Reader_read ==
  \E f \in DOMAIN readers :
    LET r == read(readers[f]) IN
    /\ readers' = [readers EXCEPT ![f] = r.pr]
    /\ ret' = [op |-> "read", file |-> f, status |-> r.status]
    /\ UNCHANGED <<sourceFile, writers, tplMap, tplN, importedPages, calls>>

\* pr.resolveObject(objSpec): the source is left at the position the call
\* leaves it at.
Reader_resolveObject ==
  LET
      \* What resolveObject is asked for: references (to objects that are there,
      \* that are compressed, that have a stale entry, that no table knows)
      \* and a direct value.
      ObjSpecs == {Ref(3), Ref(5), Ref(6), Ref(8), Ref(9), Ref(77), Num(1)}
  IN
  \E f \in DOMAIN readers, objSpec \in ObjSpecs :
    LET r == resolveObject(readers[f], objSpec) IN
    /\ readers' = [readers EXCEPT ![f].pos = r.pos]
    /\ ret' = [op |-> "resolveObject", file |-> f, objSpec |-> objSpec, err |-> r.err,
               val |-> r.val, old_pos |-> readers[f].pos, pos |-> r.pos]
    /\ UNCHANGED <<sourceFile, writers, tplMap, tplN, importedPages, calls>>

\* pr.readToken(r) for a bufio.Reader r over the bytes of text from p on.
Reader_readToken ==
  LET
      \* Texts readToken is called on, at any position.
      TokenTexts == {"", " \n", "obj", "obj ", "<", "<<", "<a", ">", "[1", "%c", "%c\n/N", "/N/M"}
      \* pr.stack when readToken is called: empty, or a token pushed back.
      TokenStacks == {<<>>, <<"R">>}
  IN
  \E text \in TokenTexts, stack \in TokenStacks :
    \E p \in 0..Len(text) :
      LET t == readToken(stack, text, p) IN
      /\ ret' = [op |-> "readToken", text |-> text, p |-> p, stack |-> stack,
                 token |-> t.token, err |-> t.err, after |-> t.p]
      /\ UNCHANGED <<sourceFile, readers, writers, tplMap, tplN, importedPages, calls>>

NextReader ==
  \/ Reader_NewPdfReader
  \/ Reader_read
  \/ Reader_resolveObject
  \/ Reader_readToken

SpecReader == Init /\ [][NextReader]_vars

(***************************************************************************)
(* Properties.                                                             *)
(***************************************************************************)
\* The last call was a PutFormXobjects or PutFormXobjectsUnordered on the
\* source f that returned without error.
PutReturned(f) ==
  /\ ret.op \in {"PutFormXobjects", "PutFormXobjectsUnordered"}
  /\ ret.status = "ok"
  /\ ret.file = f

\* The positions of the log of pw that hold the event ev of kind about src.
LogAt(pw, ev, kind, src) ==
  {i \in DOMAIN pw.log : pw.log[i].ev = ev /\ pw.log[i].kind = kind /\ pw.log[i].src = src}

\* The keys of written_objs that carry the output id.
WrittenAs(pw, id) == {o \in DOMAIN pw.written_objs : o.id = id}

\* C1: within one Writer every source object id met as an indirect reference
\* was given exactly one output id, the one don_obj_stack holds, and its body
\* is emitted at most once, and exactly once into written_objs when
\* PutFormXobjects has returned without error.
C1_OneIdOneBodyPerSourceObject ==
  \A f \in DOMAIN writers :
    LET pw == writers[f] IN
    \A src \in DOMAIN pw.don_obj_stack :
      /\ Cardinality(LogAt(pw, "alloc", "obj", src)) = 1
      /\ \A i \in LogAt(pw, "alloc", "obj", src) : pw.log[i].id = pw.don_obj_stack[src].NewId
      /\ Cardinality(LogAt(pw, "emit", "obj", src)) <= 1
      /\ PutReturned(f) =>
           /\ Cardinality(LogAt(pw, "emit", "obj", src)) = 1
           /\ WrittenAs(pw, pw.don_obj_stack[src].NewId) # {}

\* C2: when PutFormXobjects returns without error obj_stack holds no pending
\* entry, whatever the source ids are (9999 and above included).
C2_NoPendingEntryAfterPut ==
  \A f \in DOMAIN writers :
    PutReturned(f) =>
      \A src \in DOMAIN writers[f].obj_stack : writers[f].obj_stack[src] = NilValue

\* The XObject name of the facade template id t: the name UseTemplate
\* returns for it and PutFormXobjects reports its object under.
TplName(t) ==
  UseTemplate(writers[tplMap[t].SourceFile], tplMap[t].TemplateId,
              FInt(0), FInt(0), FInt(0), FInt(0)).name

\* C3: whatever the interleaving of SetSourceFile, SetSourceStream and
\* ImportPage over several sources, two distinct template ids never have the
\* same XObject name /GOFPDITPL<local index + tpl_id_offset>.
C3_TemplateNamesDistinct ==
  \A a, b \in DOMAIN tplMap : a # b => TplName(a) # TplName(b)

\* The step is a call of ImportPage for a page of the current source that
\* an earlier call imported.
RepeatedImportStep ==
  /\ ret'.op = "ImportPage"
  /\ (ret'.file \o "-" \o Fmt04d(ret'.pageno)) \in DOMAIN importedPages

\* The step is a call of ImportPage that returned an id for a page of the
\* current source that no earlier call imported.
FirstImportStep ==
  /\ ret'.op = "ImportPage"
  /\ ret'.status = "ok"
  /\ (ret'.file \o "-" \o Fmt04d(ret'.pageno)) \notin DOMAIN importedPages

\* C4: a later ImportPage for a source and page already imported returns the
\* id the first call returned (the cache records the id a first call returns
\* and never changes it) and changes no state: tplN, tplMap, the page cache
\* and the Writers with their template lists stay as they are.
C4_RepeatedImportReturnsFirstId ==
  [][/\ RepeatedImportStep =>
          /\ ret'.status = "ok"
          /\ ret'.tplN = importedPages[ret'.file \o "-" \o Fmt04d(ret'.pageno)]
          /\ UNCHANGED <<sourceFile, readers, writers, tplMap, tplN, importedPages>>
     /\ FirstImportStep =>
          importedPages'[ret'.file \o "-" \o Fmt04d(ret'.pageno)] = ret'.tplN
     /\ \A key \in DOMAIN importedPages :
          key \in DOMAIN importedPages' /\ importedPages'[key] = importedPages[key]
    ]_vars

\* A repeated ImportPage returned id 0 after another page was imported.
C4_Witness ==
  /\ ret.op = "ImportPage"
  /\ ret.status = "ok"
  /\ ret.cached
  /\ ret.tplN = 0
  /\ tplN >= 2

\* C5: the facade ids of new (source, page) pairs are 0, 1, 2, ... in call
\* order: such a call returns the number of distinct pairs imported before
\* it, which is tplN, and adds one to tplN; no other call changes tplN, so
\* tplN only increases.
C5_IdsCountFirstImports ==
  [][/\ tplN' >= tplN
     /\ FirstImportStep =>
          /\ ret'.tplN = Cardinality(DOMAIN importedPages)
          /\ ret'.tplN = tplN
          /\ tplN' = tplN + 1
          /\ DOMAIN tplMap' = 0..tplN
     /\ ~FirstImportStep => tplN' = tplN
    ]_vars

\* The third first import, over two sources, returned id 2.
C5_Witness ==
  /\ ret.op = "ImportPage"
  /\ ret.status = "ok"
  /\ ~ret.cached
  /\ ret.tplN = 2
  /\ Cardinality({tplMap[t].SourceFile : t \in DOMAIN tplMap}) = 2

\* The positions of the SetNextObjectID calls in the log of pw.
Seeds(pw) == {i \in DOMAIN pw.log : pw.log[i].ev = "seed"}

\* The positions of all the output ids pw allocated.
Allocs(pw) == {i \in DOMAIN pw.log : pw.log[i].ev = "alloc"}

\* The allocations pw made after the SetNextObjectID at position s and
\* before the next SetNextObjectID.
AllocsSince(pw, s) ==
  {i \in Allocs(pw) : i > s /\ \A j \in Seeds(pw) : ~(s < j /\ j < i)}

\* C6 as stated: after SetNextObjectID(n), n >= 1, the next PutFormXobjects
\* gives its first Form XObject the id n, and every id allocated afterwards
\* is >= n and belongs to at most one object of the Writer.
C6_SeededIdsBelongToOneObject ==
  \A f \in DOMAIN writers :
    LET pw == writers[f] IN
    \A s \in Seeds(pw) :
      /\ \A i \in AllocsSince(pw, s) :
           /\ (\A j \in AllocsSince(pw, s) : i <= j) =>
                pw.log[i].kind = "tpl" /\ pw.log[i].id = pw.log[s].id
           /\ pw.log[i].id >= pw.log[s].id
           /\ \A j \in Allocs(pw) :
                (pw.log[j].kind # pw.log[i].kind \/ pw.log[j].src # pw.log[i].src) =>
                  pw.log[j].id # pw.log[i].id

\* C6, amended: after SetNextObjectID(n), n >= 1, the next PutFormXobjects
\* gives its first Form XObject the id n, and until the next SetNextObjectID
\* every id allocated is >= n and allocated once.
C6_SeededIdsFreshSinceSeed ==
  \A f \in DOMAIN writers :
    LET pw == writers[f] IN
    \A s \in Seeds(pw) :
      /\ \A i \in AllocsSince(pw, s) :
           /\ (\A j \in AllocsSince(pw, s) : i <= j) =>
                pw.log[i].kind = "tpl" /\ pw.log[i].id = pw.log[s].id
           /\ pw.log[i].id >= pw.log[s].id
           /\ \A j \in AllocsSince(pw, s) : j # i => pw.log[j].id # pw.log[i].id

\* SetNextObjectID(3), then two PutFormXobjects over two templates: wrappers
\* and dependencies were allocated after the seed.
C6_Witness ==
  \E f \in DOMAIN writers :
    LET pw == writers[f] IN
    \E s \in Seeds(pw) :
      /\ pw.log[s].id = 3
      /\ \E i, j \in AllocsSince(pw, s) :
           /\ pw.log[i].kind = "tpl" /\ pw.log[i].src = 1
           /\ pw.log[j].kind = "obj"
      /\ Cardinality({i \in AllocsSince(pw, s) : pw.log[i].kind = "tpl"}) >= 3

\* The last call was an ImportPage that built a template.
ImportReturned == ret.op = "ImportPage" /\ ret.status = "ok" /\ ~ret.cached

\* The template the facade id t stands for.
TemplateOf(t) == writers[tplMap[t].SourceFile].tpls[tplMap[t].TemplateId + 1]

\* The boxes of page pageno of the source f as the Reader computes them for
\* that page, inherited ones included; a box that neither the page nor an
\* ancestor defines is the empty map.
OwnBoxes(f, pageno) == getPageBoxes(readers[f], pageno, 1).boxes

\* The boxes the policy tries for the requested box, in order.
FallbackChain(box) ==
  CASE box \in {"/BleedBox", "/TrimBox", "/ArtBox"} -> <<box, "/CropBox", "/MediaBox">>
    [] box = "/CropBox" -> <<"/CropBox", "/MediaBox">>
    [] OTHER -> <<box>>

\* C7: the template built by ImportPage(p, box) for a page p of the source
\* whose own (possibly inherited) box is defined has that box as its
\* rectangle, and so its w and h.
C7_TemplateBoxIsOfThePage ==
  (ImportReturned /\ ret.box \in Range(availableBoxes)
     /\ OwnBoxes(ret.file, ret.pageno)[ret.box] # EmptyMap) =>
    TemplateOf(ret.tplN).Box = OwnBoxes(ret.file, ret.pageno)[ret.box]

\* C8: ImportPage of /BleedBox, /TrimBox, /ArtBox or /CropBox from a page
\* that defines (or inherits) /MediaBox and no other box succeeds, and the
\* template has the width and height of that /MediaBox.
C8_MissingBoxFallsBackToMediaBox ==
  (/\ ret.op = "ImportPage"
   /\ ~ret.cached
   /\ ret.file \in DOMAIN readers
   /\ ret.pageno \in 1..readers[ret.file].pageCount
   /\ ret.box \in {"/BleedBox", "/TrimBox", "/ArtBox", "/CropBox"}
   /\ \A b \in Range(availableBoxes) :
        (OwnBoxes(ret.file, ret.pageno)[b] # EmptyMap) <=> (b = "/MediaBox")) =>
    /\ ret.status = "ok"
    /\ BoxGet(TemplateOf(ret.tplN).Box, "w") = OwnBoxes(ret.file, ret.pageno)["/MediaBox"]["w"]
    /\ BoxGet(TemplateOf(ret.tplN).Box, "h") = OwnBoxes(ret.file, ret.pageno)["/MediaBox"]["h"]

\* C9: an ImportPage for a page on which neither the requested box nor a
\* box of its fallback chain is defined (ancestors included) returns an
\* error and appends no template.
C9_NoBoxIsAnError ==
  [][(/\ ret'.op = "ImportPage"
      /\ (ret'.file \o "-" \o Fmt04d(ret'.pageno)) \notin DOMAIN importedPages
      /\ ret'.file \in DOMAIN readers
      /\ ret'.pageno \in 1..readers[ret'.file].pageCount
      /\ ret'.box \in Range(availableBoxes)
      /\ \A i \in DOMAIN FallbackChain(ret'.box) :
           OwnBoxes(ret'.file, ret'.pageno)[FallbackChain(ret'.box)[i]] = EmptyMap) =>
       /\ ret'.status # "ok"
       /\ Len(writers'[ret'.file].tpls) = Len(writers[ret'.file].tpls)
    ]_vars

\* C10: UseTemplate(tplId, x, y, w, h) on a Writer with several templates
\* fills a zero w or h from the width and height of the template tplId
\* itself and returns scaleX = w / tpl.w, scaleY = h / tpl.h, tx = x + tpl.x
\* and ty = -(y + tpl.y) - h.
C10_UseTemplateUsesOwnSize ==
  (ret.op = "UseTemplate" /\ ret.status = "ok"
     /\ Len(writers[tplMap[ret.tplid].SourceFile].tpls) >= 2) =>
    LET pw == writers[tplMap[ret.tplid].SourceFile]
        tpl == TemplateOf(ret.tplid)
        size == getTemplateSize(pw, tplMap[ret.tplid].TemplateId, FInt(ret.w), FInt(ret.h))
    IN /\ ret.scaleX = FDiv(size.w, FInt(tpl.W))
       /\ ret.scaleY = FDiv(size.h, FInt(tpl.H))
       /\ ret.tx = FAdd(FInt(ret.x), FInt(tpl.X))
       /\ ret.ty = FSub(FNeg(FAdd(FInt(ret.y), FInt(tpl.Y))), size.h)

\* The last call was UseTemplate(t, 10, 20, 0, 100) for a template t of
\* width 200 and height 100.
Used200x100 ==
  /\ ret.op = "UseTemplate"
  /\ ret.status = "ok"
  /\ ret.x = 10 /\ ret.y = 20 /\ ret.w = 0 /\ ret.h = 100
  /\ TemplateOf(ret.tplid).W = 200
  /\ TemplateOf(ret.tplid).H = 100

Emits(pw) == {i \in DOMAIN pw.log : pw.log[i].ev = "emit"}

\* The name of the facade call during which the event at position i of the
\* log of pw happened.
CallOf(pw, i) ==
  LET puts == {j \in DOMAIN pw.log : j < i /\ pw.log[j].ev = "put"}
  IN pw.log[CHOOSE j \in puts : \A k \in puts : k <= j].kind

\* The key of written_objs (and written_obj_pos) of the body whose
\* completion is the event at position i.
KeyOf(pw, i) == CHOOSE o \in DOMAIN pw.written_objs : o.ptr = pw.log[i].ptr

\* The output ids pw gave out.
AllocatedIds(pw) == {pw.log[i].id : i \in Allocs(pw)}

\* The characters from..to of the text b, nothing when b is shorter.
Slice(b, from, to) == IF to <= Len(b) THEN SubSeq(b, from, to) ELSE ""

\* The text of body b at offset off (from 0) is the reference to the object
\* with the hash h written as a 40 character hash.
HashAt(b, off, h) == Slice(b, off + 1, off + 40) = h /\ Len(h) = 40

\* The text of body b at offset off is the reference to the object with the
\* hash h written as its decimal output id followed by a space.
NumericAt(pw, b, off, h) ==
  \E id \in AllocatedIds(pw) :
    /\ shaOfInt(pw, id) = h
    /\ Slice(b, off + 1, off + Len(ToString(id)) + 1) = ToString(id) \o " "

\* C12: the references in the bodies emitted during a PutFormXobjects call
\* are decimal output ids and those in the bodies emitted during a
\* PutFormXobjectsUnordered call are 40 character hashes, whatever calls
\* were made on the Writer before.
C12_ReferenceModeFollowsTheCall ==
  \A f \in DOMAIN writers :
    LET pw == writers[f] IN
    \A i \in Emits(pw) :
      \A off \in DOMAIN pw.written_obj_pos[KeyOf(pw, i)] :
        IF CallOf(pw, i) = "PutFormXobjectsUnordered"
        THEN HashAt(pw.written_objs[KeyOf(pw, i)], off, pw.written_obj_pos[KeyOf(pw, i)][off])
        ELSE NumericAt(pw, pw.written_objs[KeyOf(pw, i)], off,
                       pw.written_obj_pos[KeyOf(pw, i)][off])

\* The body whose completion is the event at position i was written in hash
\* mode: a PutFormXobjectsUnordered call had begun on the Writer.
HashMode(pw, i) ==
  \E j \in DOMAIN pw.log :
    j < i /\ pw.log[j].ev = "put" /\ pw.log[j].kind = "PutFormXobjectsUnordered"

\* The number of indirect references in the text b.
RefCount(b) == Cardinality({k \in 1..Len(b) : Slice(b, k, k + 4) = " 0 R "})

\* C13: for every emitted body b and every (offset, hash) entry of its
\* hash-position map, b has at offset that 40 character hash followed by
\* " 0 R " in hash mode, or the decimal output id of the referenced object
\* followed by a space in numeric mode, and every reference written into b
\* has exactly one entry in the map.
C13_HashPositionsPointAtReferences ==
  \A f \in DOMAIN writers :
    LET pw == writers[f] IN
    \A i \in Emits(pw) :
      LET b == pw.written_objs[KeyOf(pw, i)]
          pos == pw.written_obj_pos[KeyOf(pw, i)]
      IN /\ \A off \in DOMAIN pos :
              IF HashMode(pw, i)
              THEN HashAt(b, off, pos[off]) /\ Slice(b, off + 41, off + 45) = " 0 R "
              ELSE NumericAt(pw, b, off, pos[off])
         /\ RefCount(b) = Cardinality(DOMAIN pos)

\* A Writer emitted a body with two references in numeric mode and later a
\* body with two references in hash mode.
C13_Witness ==
  \E f \in DOMAIN writers :
    LET pw == writers[f] IN
    \E i, j \in Emits(pw) :
      /\ ~HashMode(pw, i) /\ HashMode(pw, j)
      /\ Cardinality(DOMAIN pw.written_obj_pos[KeyOf(pw, i)]) = 2
      /\ Cardinality(DOMAIN pw.written_obj_pos[KeyOf(pw, j)]) = 2

\* The source objects whose reference in hash mode is the hash h.
ReferencedBy(pw, h) ==
  {src \in DOMAIN pw.don_obj_stack : shaOfInt(pw, pw.don_obj_stack[src].NewId) = h}

\* The body emitted for the source object src is returned by
\* GetImportedObjectsUnordered under the key h.
BodyReturnedUnder(pw, src, h) ==
  \E j \in LogAt(pw, "emit", "obj", src) :
    /\ KeyOf(pw, j).hash = h
    /\ h \in DOMAIN GetImportedObjectsUnordered(pw)
    /\ pw.written_objs[KeyOf(pw, j)] \in GetImportedObjectsUnordered(pw)[h]

\* C14: when a PutFormXobjectsUnordered call has returned, every hash
\* written at a reference to a source object in a body emitted in hash mode
\* (the hash GetImportedObjHashPos records) is the key under which
\* GetImportedObjectsUnordered returns the body emitted for that object, and
\* the hash returned for each template name is the key of a Form XObject
\* body of that template.
C14_HashesAreKeysOfBodies ==
  \A f \in DOMAIN writers :
    LET pw == writers[f] IN
    (PutReturned(f) /\ ret.op = "PutFormXobjectsUnordered") =>
      /\ \A i \in Emits(pw) :
           HashMode(pw, i) =>
             \A pos \in GetImportedObjHashPos(pw)[KeyOf(pw, i).hash] :
               \A off \in DOMAIN pos :
                 /\ ReferencedBy(pw, pos[off]) # {}
                 /\ \A src \in ReferencedBy(pw, pos[off]) :
                      BodyReturnedUnder(pw, src, pos[off])
      /\ \A t \in 0..(Len(pw.tpls) - 1) :
           LET name == "/GOFPDITPL" \o ToString(t + pw.tpl_id_offset) IN
           /\ name \in DOMAIN ret.result
           /\ \E j \in LogAt(pw, "emit", "tpl", t) : KeyOf(pw, j).hash = ret.result[name]

\* C15: within one Writer bodies are completed in strictly increasing order
\* of their output ids: of two bodies completed with no SetNextObjectID
\* between them, the one completed first has the smaller output id.
C15_EmissionOrderIsIdOrder ==
  \A f \in DOMAIN writers :
    LET pw == writers[f] IN
    \A i, j \in Emits(pw) :
      (i < j /\ \A s \in Seeds(pw) : ~(i < s /\ s < j)) => pw.log[i].id < pw.log[j].id

\* What a host sees of a Writer: the output id of every source object and
\* the bodies with their id and hash.
Output(pw) ==
  [ids |-> [src \in DOMAIN pw.don_obj_stack |-> pw.don_obj_stack[src].NewId],
   bodies |-> {<<o.id, o.hash, pw.written_objs[o]>> : o \in DOMAIN pw.written_objs}]

\* C16: two runs of the same call sequence on the same source give every
\* source object the same output id (and hash) and produce the same bodies:
\* in every state, all the outcomes of a PutFormXobjects call on a source
\* that was opened are one Output, whatever the order in which dictionary
\* entries are visited.
C16_PutOutcomeIsDetermined ==
  \A f \in DOMAIN writers \cap DOMAIN readers :
    \A a, b \in PutFormXobjects(writers[f], readers[f]) : Output(a.pw) = Output(b.pw)

\* C17: no facade operation panics, whatever the source or the arguments:
\* the last call never ended in a panic.
C17_NoFacadePanics == ret.status # "panic"

\* C18: an ImportPage whose page number is outside 1..len(pages), 0
\* included, makes the Writer return an error (not a panic, not a template
\* id), is not a success for the caller, and leaves the Writer's template
\* list unchanged.
C18_PageOutOfRangeIsAnError ==
  [][(/\ ret'.op = "ImportPage"
      /\ ~ret'.cached
      /\ ret'.file \in DOMAIN readers
      /\ ret'.file \in DOMAIN writers
      /\ ret'.pageno \notin 1..Len(readers[ret'.file].pages)) =>
       /\ ImportPage(writers[ret'.file], readers[ret'.file], ret'.pageno, ret'.box).status = "error"
       /\ ret'.status # "ok"
       /\ writers'[ret'.file].tpls = writers[ret'.file].tpls
    ]_vars

\* The dictionary of the page tree node with object id `id` of source f.
NodeDict(f, id) == SourceObjects(f)[id].Value.Dictionary

\* The value of the inheritable entry `key` for node `id` of source f: the
\* node's own entry, else that of the nearest ancestor that has one, found
\* by following /Parent; NilValue when no node up to the root has it.
RECURSIVE Inherited(_, _, _)
Inherited(f, id, key) ==
  LET d == NodeDict(f, id) IN
  IF key \in DOMAIN d THEN d[key]
  ELSE IF "/Parent" \in DOMAIN d THEN Inherited(f, d["/Parent"].Id, key)
  ELSE NilValue

\* The effective /Rotate of page pageno of source f (0 when none is set).
EffectiveRotate(f, pageno) ==
  LET r == Inherited(f, SourcePageIds(f)[pageno], "/Rotate") IN
  IF r = NilValue THEN 0 ELSE r.Int

\* The last call was an ImportPage that made a template.
Imported ==
  /\ ret.op = "ImportPage"
  /\ ret.status = "ok"
  /\ ~ret.cached

\* C19: after an ImportPage of a page whose effective /Rotate r is a
\* multiple of 90, the template's rotation is -(r modulo 360 in 0..359), so
\* one of 0, -90, -180, -270; its W and H are the chosen box's h and w when
\* r is an odd multiple of 90, and the box's w and h otherwise.
C19_RotationIsNormalized ==
  Imported =>
    LET r == EffectiveRotate(ret.file, ret.pageno)
        tpl == TemplateOf(ret.tplN)
        odd == (r \div 90) % 2 = 1
    IN r % 90 = 0 =>
         /\ tpl.Rotation = 0 - (r % 360)
         /\ tpl.Rotation \in {0, -90, -180, -270}
         /\ tpl.W = BoxGet(tpl.Box, IF odd THEN "h" ELSE "w")
         /\ tpl.H = BoxGet(tpl.Box, IF odd THEN "w" ELSE "h")

\* A page with /Rotate -450 was imported: its template is turned by -270
\* and its sides are those of the box, exchanged.
C19_Witness ==
  /\ Imported
  /\ EffectiveRotate(ret.file, ret.pageno) = -450
  /\ TemplateOf(ret.tplN).Rotation = -270
  /\ TemplateOf(ret.tplN).W = BoxGet(TemplateOf(ret.tplN).Box, "h")
  /\ TemplateOf(ret.tplN).W # TemplateOf(ret.tplN).H

\* The /Resources dictionary in force for page pageno of source f: the
\* page's own, else that of the nearest ancestor that defines one; a
\* reference is followed to the dictionary it names.
EffectiveResources(f, pageno) ==
  LET v == Inherited(f, SourcePageIds(f)[pageno], "/Resources") IN
  IF v.Type = "OBJREF" THEN SourceObjects(f)[v.Id].Value ELSE v

\* C20: after an ImportPage of a page that has no /Resources entry of its
\* own, the template's resources are the /Resources dictionary of the
\* nearest ancestor that defines one.
C20_ResourcesAreInherited ==
  (Imported /\ "/Resources" \notin DOMAIN NodeDict(ret.file, SourcePageIds(ret.file)[ret.pageno])) =>
    TemplateOf(ret.tplN).Resources = EffectiveResources(ret.file, ret.pageno)

\* The last call was a NewPdfReader or a read() on the source ret.file.
ReadReturned == ret.op \in {"NewPdfReader", "read"}

\* The last call was a NewPdfReader or a read() that returned without error.
ReadSucceeded == ReadReturned /\ ret.status = "ok"

\* The object id of the source f as the file holds it: its revision at the
\* highest offset.
FileObject(f, id) ==
  LET offs == {o \in DOMAIN PdfFile(f).objects : PdfFile(f).objects[o].Id = id} IN
  PdfFile(f).objects[CHOOSE o \in offs : \A q \in offs : q <= o]

\* The ids of the /Page leaves of the source f below the node id, in
\* depth-first order.
RECURSIVE PageLeaves(_, _)
PageLeaves(f, id) ==
  LET d == FileObject(f, id).Value.Dictionary
      RECURSIVE below(_, _)
      below(kids, i) ==
        IF i > Len(kids) THEN <<>> ELSE PageLeaves(f, kids[i].Id) \o below(kids, i + 1)
  IN IF d["/Type"].Token = "/Page" THEN <<id>>
     ELSE IF d["/Type"].Token = "/Pages" THEN below(d["/Kids"].Array, 1)
     ELSE <<>>

\* The id of the root of the page tree of the source f, and its /Count.
PagesRoot(f) == FileObject(f, 1).Value.Dictionary["/Pages"].Id

RootCount(f) == FileObject(f, PagesRoot(f)).Value.Dictionary["/Count"].Int

\* C21: after a read() that succeeded, pages has exactly /Count entries,
\* none nil, and they are the /Page leaves of the tree in depth-first
\* order; when /Count is not the number of /Page leaves, read() returns an
\* error.
C21_PagesAreTheLeaves ==
  (ReadReturned /\ PdfFile(ret.file).exists) =>
    /\ ret.status = "ok" =>
         LET pages == readers[ret.file].pages IN
         /\ Len(pages) = RootCount(ret.file)
         /\ \A i \in 1..Len(pages) : pages[i] # NilValue
         /\ Len(pages) = Len(PageLeaves(ret.file, PagesRoot(ret.file)))
         /\ \A i \in 1..Len(pages) :
              pages[i] # NilValue => pages[i].Id = PageLeaves(ret.file, PagesRoot(ret.file))[i]
    /\ RootCount(ret.file) # Len(PageLeaves(ret.file, PagesRoot(ret.file))) => ret.status = "error"

\* The /Type tokens of the nodes the walk of the page tree of the source f
\* reaches from the node id on: the node's own and those of the nodes below.
RECURSIVE TypesBelow(_, _)
TypesBelow(f, id) ==
  LET d == FileObject(f, id).Value.Dictionary IN
  {d["/Type"].Token}
  \cup (IF d["/Type"].Token = "/Pages"
        THEN UNION {TypesBelow(f, d["/Kids"].Array[i].Id) : i \in DOMAIN d["/Kids"].Array}
        ELSE {})

\* C22: when a /Kids array of the source has an entry whose /Type is
\* neither /Page nor /Pages, read() returns an error.
C22_UnknownKidTypeIsAnError ==
  (ReadReturned /\ PdfFile(ret.file).exists
   /\ ~(TypesBelow(ret.file, PagesRoot(ret.file)) \subseteq {"/Page", "/Pages"}))
    => ret.status = "error"

\* The offset of the newest cross-reference section of the source f, the
\* one its startxref points at: updates are appended, so the highest.
NewestAt(f) == CHOOSE o \in DOMAIN PdfFile(f).sections : \A q \in DOMAIN PdfFile(f).sections : q <= o

NewestSection(f) == PdfFile(f).sections[NewestAt(f)]

\* The entries of the newest section of f, a classic one, for an object id
\* that an older section has an entry for too.
RevisedEntries(f) ==
  IF NewestSection(f).kind # "table" THEN {}
  ELSE {e \in Range(NewestSection(f).entries) :
          \E o \in DOMAIN PdfFile(f).sections \ {NewestAt(f)} :
            \E old \in Range(PdfFile(f).sections[o].entries) : old.id = e.id}

\* C23: after a read() that succeeded, the table holds, for an object id
\* with an entry in the newest classic section and in an older one, the
\* offset of the newest section; a resolveObject of a reference to such an
\* id returns the revision of the object at that offset.
C23_NewestEntryWins ==
  /\ (ReadSucceeded /\ PdfFile(ret.file).sections # EmptyMap) =>
       \A e \in RevisedEntries(ret.file) : readers[ret.file].xref[e.id].pos = e.pos
  /\ (ret.op = "resolveObject" /\ ret.objSpec.Type = "OBJREF" /\ ret.err = "") =>
       \A e \in RevisedEntries(ret.file) :
         e.id = ret.objSpec.Id => ret.val = PdfFile(ret.file).objects[e.pos]

\* The dictionary of a cross-reference section: the trailer of a classic
\* section, the stream dictionary of a cross-reference stream.
SectionDict(sec) == IF sec.kind = "table" THEN sec.trailer ELSE sec.dict

\* C24: after a read() that succeeded on a source whose sections all carry
\* /Root, the trailer is the dictionary of the newest section, and the
\* catalog is the object its /Root names.
C24_NewestTrailerWins ==
  (/\ ReadSucceeded
   /\ PdfFile(ret.file).sections # EmptyMap
   /\ \A o \in DOMAIN PdfFile(ret.file).sections :
        "/Root" \in DOMAIN SectionDict(PdfFile(ret.file).sections[o]).Dictionary)
    => /\ readers[ret.file].trailer = SectionDict(NewestSection(ret.file))
       /\ readers[ret.file].catalog.Id
            = SectionDict(NewestSection(ret.file)).Dictionary["/Root"].Id

\* C25: when a resolveObject called on an indirect reference returns, with
\* a value or with an error, the source is at the position it was at when
\* the call began.
C25_SeekPositionIsRestored ==
  (ret.op = "resolveObject" /\ ret.objSpec.Type = "OBJREF") => ret.pos = ret.old_pos

\* C26: a read() on a Reader whose read() has succeeded returns without
\* error and leaves xref, xrefStream, trailer, catalog, pages, pageCount
\* and curPage as they were.
C26_ReadIsIdempotent ==
  [][ret'.op = "read" =>
       /\ ret'.status = "ok"
       /\ ret'.file \in DOMAIN readers /\ ret'.file \in DOMAIN readers'
       /\ readers'[ret'.file].xref = readers[ret'.file].xref
       /\ readers'[ret'.file].xrefStream = readers[ret'.file].xrefStream
       /\ readers'[ret'.file].trailer = readers[ret'.file].trailer
       /\ readers'[ret'.file].catalog = readers[ret'.file].catalog
       /\ readers'[ret'.file].pages = readers[ret'.file].pages
       /\ readers'[ret'.file].pageCount = readers[ret'.file].pageCount
       /\ readers'[ret'.file].curPage = readers[ret'.file].curPage]_vars

\* A read() returned on a Reader that NewPdfReader had read before: its
\* table and its pages are there.
C26_Witness ==
  /\ ret.op = "read"
  /\ ret.status = "ok"
  /\ readers[ret.file].alreadyRead
  /\ readers[ret.file].xref # EmptyMap
  /\ Len(readers[ret.file].pages) = 2
  /\ readers[ret.file].curPage = 2

\* C27: a NewPdfReader or a read() on a source comes to an end, with
\* success or with an error (a panic ends it too): it does not go through
\* the same state of its loop again and again.
C27_ReadTerminates == ReadReturned => ret.status # "diverges"

\* C29: a readToken does not fail because the input ended: with no bytes
\* left and nothing pushed back it returns the empty token, and a token the
\* end of the input cuts short (a word, a lone '<' or '>') is returned,
\* all without error.
C29_EndOfInputIsNotAnError ==
  ret.op = "readToken" =>
    /\ (ret.stack = <<>> /\ ret.p = Len(ret.text)) => (ret.token = "" /\ ret.err = "")
    /\ (ret.stack = <<>> /\ ret.p < Len(ret.text)
        /\ SubSeq(ret.text, ret.p + 1, Len(ret.text)) \in {"obj", "<", ">"})
         => (ret.err = "" /\ ret.token = SubSeq(ret.text, ret.p + 1, Len(ret.text)))

SecondPutStep ==
  /\ ret.op \in {"PutFormXobjects", "PutFormXobjectsUnordered"}
  /\ ret.status = "ok"
  /\ ret'.op = ret.op
  /\ ret'.status = "ok"
  /\ ret'.file = ret.file
  /\ calls' = calls + 1

\* C30: a second PutFormXobjects with no ImportPage since the first gives
\* no new output id, adds no body to the imported objects, and returns the
\* name-to-id map the first call returned.
C30_SecondPutAddsNothing ==
  [][SecondPutStep =>
       /\ writers'[ret.file].n = writers[ret.file].n
       /\ Allocs(writers'[ret.file]) = Allocs(writers[ret.file])
       /\ writers'[ret.file].written_objs = writers[ret.file].written_objs
       /\ ret'.result = ret.result]_vars

====
